---------------------------- MODULE Spec2Model ----------------------------
(***************************************************************************)
(* A model of the CarnivoresIO codecs (3DF / CAR / 3DN import and export): *)
(* the ARGB1555 texture codec, the 3DF structural validator, the CAR       *)
(* cross-reference table, the skeleton inference and the animation baker.  *)
(* Each component has its own variables, its own initial condition and its *)
(* own specification; a specification leaves the other components idle.    *)
(***************************************************************************)
EXTENDS Integers, Sequences, FiniteSets, TLC

VARIABLES
    tex_pc,        \* texture codec: "file" | "parsed" | "packed" | "error"
    tex_size,      \* header texture_size, in bytes
    tex_file,      \* the 16-bit words the file holds for the texture
    tex_pixels,    \* parse_3df_texture's float RGBA pixels
    tex_out        \* image_to_argb1555's packed words

texVars == <<tex_pc, tex_size, tex_file, tex_pixels, tex_out>>

VARIABLES
    bone_pc,       \* bone validator: "parsed" | "validated" | "error"
    bone_count,    \* header bone_count
    bone_in,       \* the bone records as parsed from the file
    bones,         \* the bone records validate_3df_bones returns
    bone_warnings  \* context.warnings after validate_3df_bones

boneVars == <<bone_pc, bone_count, bone_in, bones, bone_warnings>>

VARIABLE
    car  \* CAR decoder, a record:
        \*   pc          "tail" | "file" | "parsed" | "error"
        \*   header      the CAR header fields the decoder reads
        \*   file        what follows the animations: sound blocks, cross-ref
        \*               words; or, at "tail", the bytes that follow the texture
        \*   validate    parse_car's validate argument
        \*   animations  the returned animation list
        \*   sounds      the returned sound list
        \*   xref        the returned cross-reference table
        \*   warnings    context.warnings

carVars == <<car>>

VARIABLE
    mst  \* skeleton inference, a record:
        \*   pc         "input" | "done"
        \*   centroids  the group centroids, indexed from 0
        \*   names      bone_names: None, or one name per group
        \*   parents    infer_hierarchy_mst's result, indexed from 0
        \*   links      the (parent, child) pairs in the order they were chosen

mstVars == <<mst>>

VARIABLE
    bake  \* bake_range, a record:
        \*   pc           "call" | "returned"
        \*   fps          scene.render.fps
        \*   kps          the kps argument
        \*   start        the start argument
        \*   end          the end argument
        \*   frame_step   frame_step, a double
        \*   num_samples  num_samples

bakeVars == <<bake>>

VARIABLES
    df_pc,      \* 3DF pipeline: "file" | "parsed" | "failed" | "imported" | "exported"
    df_file,    \* the .3df file on disk
    df_opts,    \* the import operator's options
    df_result,  \* what parse_3df returned, or that it raised
    df_obj,     \* the host object the import operator built
    df_out      \* what the exporter gathered and wrote

dfVars == <<df_pc, df_file, df_opts, df_result, df_obj, df_out>>

VARIABLES
    xc_pc,      \* CAR exporter: "scene" | "written" | "failed"
    xc_scene,   \* the strips to bake, the sounds that convert, the target path
    xc_anims,   \* what gather_car_animations returned
    xc_disk     \* the file at the target path, and the write the system
                \* refused while it was written ("none": no refusal)

xcVars == <<xc_pc, xc_scene, xc_anims, xc_disk>>

VARIABLE
    rs  \* rescale_standard_action, a record:
        \*   pc      "idle" | "action"
        \*   action  action.fcurves: per channel, its keyframe_points
        \*   prev    the fcurves as they were before the latest call
        \*   kps     the kps argument
        \*   fps     the scene_fps argument
        \*   prop    action["carnivores_kps"], None when not set
        \*   calls   how many calls were made

rsVars == <<rs>>

VARIABLE
    nm  \* name decoding, a record:
        \*   pc      "idle" | "file" | "parsed"
        \*   file    the file: kind, validate, the name fields it holds
        \*   result  what parse_car / parse_3df return: names, warnings
        \*   log     the messages handed to the logger or to a context
        \*           that is not the caller's

nmVars == <<nm>>

VARIABLE
    pv  \* preview and sound playback, a record:
        \*   pc         "idle" | "session"
        \*   event      the event or operator that ran last
        \*   scene      frame_start, frame_end, frame_current,
        \*              carnivores_nla_sound_enabled
        \*   obj        the active object: carnivores_anim_source, its own
        \*              and its shape keys' animation data (NLA tracks)
        \*   playing    screen.is_animation_playing
        \*   real       _is_real_playback
        \*   loop       preview_loop_handler is in frame_change_post
        \*   restore    _preview_restore_state
        \*   sounds     _playing_sounds: object -> sound name
        \*   unstopped  a handle left _playing_sounds without stop()
        \*   before     scene and tracks as the running preview found them
        \*   events     events and operators run so far

pvVars == <<pv>>

VARIABLE
    gb  \* gather_car_animations and the host, a record:
        \*   pc     "idle" | "call" | "tracks" | "strips" | "action" |
        \*          "finally" | "returned"
        \*   host   scene.frame_current, anim_data.action, use_nla, the
        \*          tracks' mute flags, the modifiers, obj.show_only_shape_key
        \*   found  the host state as the call found it
        \*   saved  original_frame, original_action, original_use_nla,
        \*          original_mute_states, mod_states,
        \*          original_show_only_shape_key
        \*   track  the track of the loop over reversed(anim_data.nla_tracks)
        \*   strip  the strip of the loop over track.strips
        \*   exit   "" | "mismatch" | "raised": what happened during the bake

gbVars == <<gb>>

VARIABLE
    ow  \* CAR vertex owners, a record:
        \*   pc       "idle" | "memory" | "file" | "decoded"
        \*   owners   verts_arr['owner'] of export_car, <<>> for a foreign file
        \*   disk     the owner fields of the file
        \*   decoded  what handle_car_owners returns: owners and bone names

owVars == <<ow>>

VARIABLE
    as  \* sound association of a CAR import, a record:
        \*   pc     "idle" | "parsed" | "imported"
        \*   file   what parse_car returned: sounds, cross_ref, animations
        \*   links  slot of the animation -> the sound block its action is
        \*          linked to, -1 for none

asVars == <<as>>

vars == <<texVars, boneVars, carVars, mstVars, bakeVars, dfVars, xcVars,
          rsVars, nmVars, pvVars, gbVars, owVars, asVars>>

\* what each component leaves alone
texOthers == <<boneVars, carVars, mstVars, bakeVars, dfVars, xcVars, rsVars,
               nmVars, pvVars, gbVars, owVars, asVars>>
boneOthers == <<texVars, carVars, mstVars, bakeVars, dfVars, xcVars, rsVars,
                nmVars, pvVars, gbVars, owVars, asVars>>
carOthers == <<texVars, boneVars, mstVars, bakeVars, dfVars, xcVars, rsVars,
               nmVars, pvVars, gbVars, owVars, asVars>>
mstOthers == <<texVars, boneVars, carVars, bakeVars, dfVars, xcVars, rsVars,
               nmVars, pvVars, gbVars, owVars, asVars>>
bakeOthers == <<texVars, boneVars, carVars, mstVars, dfVars, xcVars, rsVars,
                nmVars, pvVars, gbVars, owVars, asVars>>
dfOthers == <<texVars, boneVars, carVars, mstVars, bakeVars, xcVars, rsVars,
              nmVars, pvVars, gbVars, owVars, asVars>>
xcOthers == <<texVars, boneVars, carVars, mstVars, bakeVars, dfVars, rsVars,
              nmVars, pvVars, gbVars, owVars, asVars>>
rsOthers == <<texVars, boneVars, carVars, mstVars, bakeVars, dfVars, xcVars,
              nmVars, pvVars, gbVars, owVars, asVars>>
nmOthers == <<texVars, boneVars, carVars, mstVars, bakeVars, dfVars, xcVars,
              rsVars, pvVars, gbVars, owVars, asVars>>
pvOthers == <<texVars, boneVars, carVars, mstVars, bakeVars, dfVars, xcVars,
              rsVars, nmVars, gbVars, owVars, asVars>>
gbOthers == <<texVars, boneVars, carVars, mstVars, bakeVars, dfVars, xcVars,
              rsVars, nmVars, pvVars, owVars, asVars>>
owOthers == <<texVars, boneVars, carVars, mstVars, bakeVars, dfVars, xcVars,
              rsVars, nmVars, pvVars, gbVars, asVars>>
asOthers == <<texVars, boneVars, carVars, mstVars, bakeVars, dfVars, xcVars,
              rsVars, nmVars, pvVars, gbVars, owVars>>

\* the sound association, no import in progress
AsIdle == as = [pc |-> "idle"]

\* the CAR vertex owners, nothing exported or parsed
OwIdle == ow = [pc |-> "idle"]

\* gather_car_animations' host state, no call in progress
GbIdle == gb = [pc |-> "idle"]

\* the preview and sound handlers, not registered
PvIdle == pv = [pc |-> "idle"]

\* the name decoders, not invoked
NmIdle == nm = [pc |-> "idle"]

\* the timing resampler, not invoked
RsIdle == rs = [pc |-> "idle"]

\* the CAR exporter, not invoked
XcIdle ==
    /\ xc_pc = "idle"
    /\ xc_scene = <<>>
    /\ xc_anims = <<>>
    /\ xc_disk = <<>>

(***************************************************************************)
(* Arithmetic helpers                                                      *)
(***************************************************************************)
Pow2Table[n \in 0..30] == IF n = 0 THEN 1 ELSE 2 * Pow2Table[n - 1]

Pow2(n) == Pow2Table[n]

Min2(a, b) == IF a <= b THEN a ELSE b
Max2(a, b) == IF a >= b THEN a ELSE b

\* np.clip
Clip(v, lo, hi) == IF v < lo THEN lo ELSE IF v > hi THEN hi ELSE v

\* n / d rounded to the nearest integer, ties to the even one (IEEE, np.round)
RoundHalfEvenDiv(n, d) ==
    LET q == n \div d
        r == n % d
    IN  IF 2 * r > d \/ (2 * r = d /\ q % 2 = 1) THEN q + 1 ELSE q

Reverse(s) == [i \in 1..Len(s) |-> s[Len(s) + 1 - i]]

(***************************************************************************)
(* IEEE single precision, for the values the texture codec computes.       *)
(* A float is [m, k], the number m / 2^k, with 2^23 <= m < 2^24 (or m = 0).*)
(***************************************************************************)
F32Zero == [m |-> 0, k |-> 0]

RECURSIVE F32Scale(_, _, _)
F32Scale(n, d, k) ==
    IF n * Pow2(k) >= d * Pow2(23) THEN k ELSE F32Scale(n, d, k + 1)

\* float32(n) / float32(d), correctly rounded (0 <= n <= d < 2^5)
F32Div(n, d) ==
    IF n = 0 THEN F32Zero
    ELSE LET k == F32Scale(n, d, 0)
             m == RoundHalfEvenDiv(n * Pow2(k), d)
         IN  IF m = Pow2(24) THEN [m |-> Pow2(23), k |-> k - 1]
             ELSE [m |-> m, k |-> k]

RECURSIVE F32Shift(_, _)
F32Shift(p, s) == IF p < Pow2(24 + s) THEN s ELSE F32Shift(p, s + 1)

\* x * float32(a), correctly rounded (a < 2^5)
F32MulInt(x, a) ==
    IF x.m = 0 THEN F32Zero
    ELSE LET p == x.m * a
             s == F32Shift(p, 0)
             m == RoundHalfEvenDiv(p, Pow2(s))
         IN  IF m = Pow2(24) THEN [m |-> Pow2(23), k |-> x.k - s - 1]
             ELSE [m |-> m, k |-> x.k - s]

\* ndarray.round(): to the nearest integer, ties to even (x >= 0, x.k >= 0)
F32Round(x) == RoundHalfEvenDiv(x.m, Pow2(x.k))

(***************************************************************************)
(* TextureCodec                                                            *)
(***************************************************************************)
TEXTURE_WIDTH == 256

\* (word >> shift) & 0x1F, then / 31.0 in float32
Unpack5Table == [c \in 0..31 |-> F32Div(c, 31)]

Unpack5(c) == Unpack5Table[c]

UnpackWord(w) ==
    <<Unpack5((w \div 1024) % 32), Unpack5((w \div 32) % 32),
      Unpack5(w % 32), F32Zero>>

\* a.reshape(height, TEXTURE_WIDTH, ...)[::-1].ravel() on a flat row-major list
FlipRows(a, height) ==
    [i \in 1..Len(a) |->
        LET row == (i - 1) \div TEXTURE_WIDTH
            col == (i - 1) % TEXTURE_WIDTH
        IN  a[(height - 1 - row) * TEXTURE_WIDTH + col + 1]]

\* parse_3df_texture(file, texture_size, texture_height); words is what
\* np.fromfile returned for count = texture_size // 2.
parse_3df_texture(words, texture_size, texture_height) ==
    LET expected_length == texture_size \div 2
        texture == [i \in 1..Len(words) |-> UnpackWord(words[i])]
    IN  IF Len(words) # expected_length
            THEN [raised |-> TRUE, texture |-> <<>>, texture_raw |-> <<>>]
        ELSE IF texture_size % (TEXTURE_WIDTH * 2) # 0
            THEN [raised |-> TRUE, texture |-> <<>>, texture_raw |-> <<>>]
        ELSE [raised |-> FALSE,
              texture |-> IF texture_height > 0
                            THEN FlipRows(texture, texture_height)
                            ELSE texture,
              texture_raw |-> words]

\* np.clip((channel * 31).round(), 0, 31).astype(np.uint16)
Pack5(x) == Clip(F32Round(F32MulInt(x, 31)), 0, 31)

PackPixel(p) == Pack5(p[1]) * 1024 + Pack5(p[2]) * 32 + Pack5(p[3])

\* image_to_argb1555 without the vertical flip of the rows
image_to_argb1555_noflip(image) ==
    IF image.width # TEXTURE_WIDTH
        THEN [raised |-> TRUE, packed |-> <<>>]
    ELSE IF Len(image.pixels) # image.width * image.height
        THEN [raised |-> TRUE, packed |-> <<>>]
    ELSE [raised |-> FALSE,
          packed |-> [i \in 1..Len(image.pixels) |-> PackPixel(image.pixels[i])]]

\* image_to_argb1555(image): image.size = (width, height), image.pixels as
\* a list of RGBA pixels (the source's flat float list, four floats a pixel).
image_to_argb1555(image) ==
    IF image.width # TEXTURE_WIDTH
        THEN [raised |-> TRUE, packed |-> <<>>]
    ELSE IF Len(image.pixels) # image.width * image.height
        THEN [raised |-> TRUE, packed |-> <<>>]
    ELSE LET pixels == FlipRows(image.pixels, image.height)
         IN  [raised |-> FALSE,
              packed |-> [i \in 1..Len(pixels) |-> PackPixel(pixels[i])]]

\* parse_3df_header's texture_height
TextureHeight(texture_size) == texture_size \div (TEXTURE_WIDTH * 2)

(*--- inputs of the texture codec ---*)
MaxTexHeight == 2
TexSeeds == {0, 1023, 12345, 31744, 32767, 32768, 45000}
TexStrides == {0, 1, 33, 1057}

\* a buffer of n words: word i is seed + i * stride, as 16 bits
TexBuffer(n, seed, stride) == [i \in 1..n |-> (seed + (i - 1) * stride) % 65536]

TexInit ==
    /\ tex_pc = "file"
    /\ tex_pixels = <<>>
    /\ tex_out = <<>>
    /\ \E h \in 1..MaxTexHeight, seed \in TexSeeds, stride \in TexStrides,
          odd \in {0, 2} :
          \* odd = 2: a texture_size that is no multiple of the row size
          /\ tex_size = TEXTURE_WIDTH * 2 * h + odd
          /\ tex_file = TexBuffer(tex_size \div 2, seed, stride)

TexIdle ==
    /\ tex_pc = "idle"
    /\ tex_size = 0
    /\ tex_file = <<>>
    /\ tex_pixels = <<>>
    /\ tex_out = <<>>

TexParse ==
    /\ tex_pc = "file"
    /\ LET res == parse_3df_texture(tex_file, tex_size, TextureHeight(tex_size))
       IN  /\ tex_pc' = IF res.raised THEN "error" ELSE "parsed"
           /\ tex_pixels' = res.texture
    /\ UNCHANGED <<tex_size, tex_file, tex_out, texOthers>>

TexPack ==
    /\ tex_pc = "parsed"
    /\ LET res == image_to_argb1555([width |-> TEXTURE_WIDTH,
                                     height |-> TextureHeight(tex_size),
                                     pixels |-> tex_pixels])
       IN  /\ tex_pc' = IF res.raised THEN "error" ELSE "packed"
           /\ tex_out' = res.packed
    /\ UNCHANGED <<tex_size, tex_file, tex_pixels, texOthers>>

TexNext == TexParse \/ TexPack

AlphaClear(words) == \A i \in 1..Len(words) : words[i] < 32768

\* C1: a buffer of 16-bit words whose alpha bits are all 0, of row width 256
\* and height >= 1, is reproduced word for word by unpacking it
\* (parse_3df_texture) and packing the result (image_to_argb1555).
C1_TextureRoundTrip ==
    (tex_pc = "packed" /\ AlphaClear(tex_file) /\ TextureHeight(tex_size) >= 1)
        => tex_out = tex_file

\* a packed two-row buffer whose rows differ and that uses every channel value
C1_Witness ==
    /\ tex_pc = "packed"
    /\ AlphaClear(tex_file)
    /\ TextureHeight(tex_size) = 2
    /\ tex_file[1] # tex_file[TEXTURE_WIDTH + 1]
    /\ \A c \in 0..31 : \E i \in 1..Len(tex_file) : tex_file[i] % 32 = c
    /\ tex_out = tex_file

(***************************************************************************)
(* StructuralValidator: bones                                              *)
(***************************************************************************)
\* A name field is the list of its bytes (numpy 'S32' drops trailing NULs).
\* raw.decode('ascii', errors='ignore'): the bytes >= 128 are dropped
DecodeAscii(raw) == SelectSeq(raw, LAMBDA b : b < 128)

RECURSIVE FirstNul(_, _)
FirstNul(str, i) ==
    IF i > Len(str) THEN i ELSE IF str[i] = 0 THEN i ELSE FirstNul(str, i + 1)

\* str.split('\x00', 1)[0]
SplitNul(str) == SubSeq(str, 1, FirstNul(str, 1) - 1)

\* detect_bone_cycles.has_cycle(node, visited, path); parents is indexed from 0
RECURSIVE has_cycle(_, _, _, _, _)
has_cycle(parents, n, node, visited, path) ==
    IF node \in path THEN TRUE
    ELSE IF node \in visited \/ node = -1 THEN FALSE
    ELSE IF node < n
        THEN has_cycle(parents, n, parents[node],
                       visited \cup {node}, path \cup {node})
        ELSE FALSE

\* detect_bone_cycles(parents, bone_count): the first bone whose walk closes a
\* cycle, or -1
detect_bone_cycles(parents, n) ==
    LET hits == {i \in 0..(n - 1) : has_cycle(parents, n, i, {}, {})}
    IN  IF hits = {} THEN -1 ELSE CHOOSE i \in hits : \A j \in hits : i <= j

\* break_cycles, were the link after the re-entered bone the one cut
RECURSIVE break_cycles_next_link(_, _, _, _, _)
break_cycles_next_link(parents, n, node, visited, path) ==
    IF node \in path THEN [parents EXCEPT ![parents[node]] = -1]
    ELSE IF node \in visited \/ node = -1 THEN parents
    ELSE IF node < n
        THEN break_cycles_next_link(parents, n, parents[node],
                                    visited \cup {node}, path \cup {node})
        ELSE parents

\* validate_3df_bones.break_cycles(node): returns bones['parent'] after the walk
RECURSIVE break_cycles(_, _, _, _, _)
break_cycles(parents, n, node, visited, path) ==
    IF node \in path THEN [parents EXCEPT ![node] = -1]
    ELSE IF node \in visited \/ node = -1 THEN parents
    ELSE IF node < n
        THEN break_cycles(parents, n, parents[node],
                          visited \cup {node}, path \cup {node})
        ELSE parents

\* for i in range(bone_count): visited.clear(); path.clear(); break_cycles(i)
RECURSIVE BreakFrom(_, _, _)
BreakFrom(parents, n, i) ==
    IF i >= n THEN parents
    ELSE BreakFrom(break_cycles(parents, n, i, {}, {}), n, i + 1)

\* a repair that walks from the reported bone only
RepairCyclesFromStart(parents, n, cycle_start) ==
    break_cycles(parents, n, cycle_start, {}, {})

\* the repair of validate_3df_bones, entered when cycle_start # -1
RepairCycles(parents, n, cycle_start) == BreakFrom(parents, n, 0)

BoneName(b) == SplitNul(DecodeAscii(b.name))

\* validate_3df_bones(bones, bone_count, context); bs is indexed from 0
validate_3df_bones(bs, n, warnings) ==
    LET len == Cardinality(DOMAIN bs)
        parents == [i \in DOMAIN bs |-> bs[i].parent]
        decoded == [i \in DOMAIN bs |->
                      IF BoneName(bs[i]) = <<>> THEN <<"Bone_", i>>
                      ELSE BoneName(bs[i])]
        empties == {i \in DOMAIN bs : BoneName(bs[i]) = <<>>}
        dupes == {i \in DOMAIN bs :
                    \E j \in DOMAIN bs : j # i /\ decoded[j] = decoded[i]}
        invalid_parent == {i \in DOMAIN bs :
                             ~(parents[i] = -1 \/ (parents[i] >= 0 /\ parents[i] < n))}
        cycle_start == detect_bone_cycles(parents, n)
        repaired == IF cycle_start # -1
                      THEN RepairCycles(parents, n, cycle_start) ELSE parents
        w1 == warnings
                \o [k \in 1..Cardinality(empties) |-> "bone_empty_name"]
                \o (IF dupes # {} THEN <<"bone_duplicate_names">> ELSE <<>>)
        w2 == w1 \o (IF cycle_start # -1 THEN <<"bone_cycle">> ELSE <<>>)
        w3 == w2 \o (IF \E i \in DOMAIN bs : bs[i].hidden # 0
                       THEN <<"bone_hidden">> ELSE <<>>)
    IN  IF len # n
            THEN [raised |-> TRUE, bones |-> bs, warnings |-> warnings]
        ELSE IF invalid_parent # {}
            THEN [raised |-> TRUE, bones |-> bs, warnings |-> w1]
        ELSE IF \E i \in DOMAIN bs : ~bs[i].finite
            THEN [raised |-> TRUE,
                  bones |-> [i \in DOMAIN bs |-> [bs[i] EXCEPT !.parent = repaired[i]]],
                  warnings |-> w2]
        ELSE [raised |-> FALSE,
              bones |-> [i \in DOMAIN bs |-> [bs[i] EXCEPT !.parent = repaired[i]]],
              warnings |-> w3]

(*--- inputs of the bone validator ---*)
MaxBones == 3

\* a bone record: name bytes, parent, whether pos is finite, hidden
Bone(name, parent, finite, hidden) ==
    [name |-> name, parent |-> parent, finite |-> finite, hidden |-> hidden]

\* name bytes of bone i under a naming: distinct names, all empty, all equal
BoneNameBytes(naming, i) ==
    CASE naming = "distinct" -> <<66, 48 + i>>
      [] naming = "empty"    -> <<>>
      [] naming = "same"     -> <<66>>

BoneInit ==
    /\ bone_pc = "parsed"
    /\ bone_warnings = <<>>
    /\ \E n \in 0..MaxBones :
          \E ps \in [0..(n - 1) -> (-2)..n],
             naming \in {"distinct", "empty", "same"},
             finite \in BOOLEAN, hidden \in {0, 1}, declared \in {n, n + 1} :
             \* the parent arrays vary freely; the other fields vary on the
             \* arrays the validator accepts as they are
             /\ (naming # "distinct" \/ ~finite \/ hidden # 0 \/ declared # n)
                    => \A i \in 0..(n - 1) : ps[i] = i - 1
             /\ bone_count = declared
             /\ bone_in = [i \in 0..(n - 1) |->
                             Bone(BoneNameBytes(naming, i), ps[i], finite, hidden)]
             /\ bones = bone_in

BoneIdle ==
    /\ bone_pc = "idle"
    /\ bone_count = 0
    /\ bone_in = <<>>
    /\ bones = <<>>
    /\ bone_warnings = <<>>

BoneValidate ==
    /\ bone_pc = "parsed"
    /\ LET res == validate_3df_bones(bone_in, bone_count, bone_warnings)
       IN  /\ bone_pc' = IF res.raised THEN "error" ELSE "validated"
           /\ bones' = res.bones
           /\ bone_warnings' = res.warnings
    /\ UNCHANGED <<bone_count, bone_in, boneOthers>>

BoneNext == BoneValidate

\* following parent links from node reaches -1 within k links
RECURSIVE ReachesRoot(_, _, _)
ReachesRoot(bs, node, k) ==
    node = -1 \/ (k > 0 /\ node \in DOMAIN bs /\ ReachesRoot(bs, bs[node].parent, k - 1))

IsCyclic(bs) ==
    \E i \in DOMAIN bs :
        bs[i].parent \in DOMAIN bs /\ ~ReachesRoot(bs, i, Cardinality(DOMAIN bs))

\* C2: whenever validate_3df_bones returns without raising, every parent is
\* -1 or in [0, bone_count), and following the parent links from any bone
\* reaches -1 within bone_count steps.
C2_BonesAcyclicAfterRepair ==
    bone_pc = "validated" =>
        \A i \in DOMAIN bones :
            /\ bones[i].parent = -1
                 \/ (bones[i].parent >= 0 /\ bones[i].parent < bone_count)
            /\ ReachesRoot(bones, i, bone_count)

\* an accepted array that held a self-loop and a second, disjoint cycle
C2_Witness ==
    /\ bone_pc = "validated"
    /\ bone_count >= 3
    /\ bone_in[0].parent = 0
    /\ bone_in[1].parent = 2
    /\ bone_in[2].parent = 1
    /\ ~IsCyclic(bones)
    /\ "bone_cycle" \in {bone_warnings[k] : k \in 1..Len(bone_warnings)}

(***************************************************************************)
(* CAR decoder: sound blocks and the cross-reference table                 *)
(***************************************************************************)
CROSS_REF_SIZE == 64

\* cross_ref[invalid] = -1 only when validating
ClampCrossRefIfValidate(cross_ref, sfx_count, validate) ==
    [i \in 1..Len(cross_ref) |->
        IF validate /\ (cross_ref[i] >= sfx_count \/ cross_ref[i] < -1)
            THEN -1 ELSE cross_ref[i]]

\* invalid = (cross_ref >= sfx_count) | (cross_ref < -1); cross_ref[invalid] = -1
ClampCrossRef(cross_ref, sfx_count, validate) ==
    [i \in 1..Len(cross_ref) |->
        IF cross_ref[i] >= sfx_count \/ cross_ref[i] < -1 THEN -1 ELSE cross_ref[i]]

\* one pass of the sound loop: the block as the file holds it -> the dict
ParseSound(block, sfx_idx) ==
    LET name == SplitNul(DecodeAscii(block.name))
    IN  [name |-> IF name = <<>> THEN <<"Sound_", sfx_idx>> ELSE name,
         data |-> block.data,
         length_bytes |-> block.length]

SoundWarnings(block, validate) ==
    (IF validate /\ SplitNul(DecodeAscii(block.name)) = <<>>
        THEN <<"sound_empty_name">> ELSE <<>>)
    \o (IF validate /\ Len(block.data) # block.length \div 2
        THEN <<"sound_truncated">> ELSE <<>>)

RECURSIVE ConcatAll(_)
ConcatAll(ss) == IF ss = <<>> THEN <<>> ELSE Head(ss) \o ConcatAll(Tail(ss))

\* parse_car_sounds_and_crossref(file, header, context, validate).  file.sounds
\* are the sound blocks the file still holds (np.fromfile(...)[0] raises
\* IndexError at the end of the file), file.xref the 32-bit words left for
\* np.fromfile(file, '<i4', count=64).
parse_car_sounds_and_crossref(file, header, warnings, validate) ==
    LET n == header.sfx_count
        cross_ref == SubSeq(file.xref, 1, Min2(CROSS_REF_SIZE, Len(file.xref)))
        invalid == {i \in 1..Len(cross_ref) :
                      cross_ref[i] >= n \/ cross_ref[i] < -1}
        w1 == warnings
                \o ConcatAll([k \in 1..Min2(n, Len(file.sounds)) |->
                                SoundWarnings(file.sounds[k], validate)])
        w2 == w1 \o (IF header.ani_count > Len(cross_ref)
                       THEN <<"ani_count_exceeds_cross_ref">> ELSE <<>>)
        w3 == w2 \o (IF invalid # {} /\ validate
                       THEN <<"invalid_sound_indices">> ELSE <<>>)
    IN  IF Len(file.sounds) < n
            THEN [raised |-> TRUE, sounds |-> <<>>, cross_ref |-> <<>>,
                  warnings |-> w1]
        ELSE [raised |-> FALSE,
              sounds |-> [k \in 1..n |-> ParseSound(file.sounds[k], k - 1)],
              cross_ref |-> ClampCrossRef(cross_ref, n, validate),
              warnings |-> w3]

(*--- inputs of the CAR decoder ---*)
MaxSfx == 2
XrefFree == 2

\* the sound block number k of a file, in one of its shapes
SoundBlock(shape, k) ==
    CASE shape = "ok"        -> [name |-> <<83, 48 + k>>, length |-> 4, data |-> <<k, -k>>]
      [] shape = "unnamed"   -> [name |-> <<>>, length |-> 4, data |-> <<k, -k>>]
      [] shape = "truncated" -> [name |-> <<83, 48 + k>>, length |-> 4, data |-> <<k>>]
      [] shape = "empty"     -> [name |-> <<83, 48 + k>>, length |-> 0, data |-> <<>>]

CarInit ==
    \E validate \in BOOLEAN, sfx \in 0..MaxSfx, ani \in {1, CROSS_REF_SIZE + 1},
       shape \in {"ok", "unnamed", "truncated", "empty"},
       blocks \in {0, 1}, len \in {XrefFree, CROSS_REF_SIZE},
       free \in [1..XrefFree -> (-2)..MaxSfx], fill \in (-2)..MaxSfx :
       \* blocks = 1: the file ends one sound block early
       /\ (blocks = 1 \/ shape # "ok" \/ ani # 1 \/ len # CROSS_REF_SIZE)
             => (fill = -1 /\ \A i \in 1..XrefFree : free[i] = i - 2)
       /\ car =
            [pc |-> "file", animations |-> <<>>, sounds |-> <<>>, xref |-> <<>>,
             warnings |-> <<>>, validate |-> validate,
             header |-> [ani_count |-> ani, sfx_count |-> sfx],
             file |->
               [sounds |-> [k \in 1..Max2(sfx - blocks, 0) |-> SoundBlock(shape, k)],
                xref |-> [i \in 1..len |-> IF i <= XrefFree THEN free[i] ELSE fill]]]

CarIdle == car = [pc |-> "idle"]

CarParseSounds ==
    /\ car.pc = "file"
    /\ LET res == parse_car_sounds_and_crossref(car.file, car.header,
                                                car.warnings, car.validate)
       IN  car' = [car EXCEPT !.pc = IF res.raised THEN "error" ELSE "parsed",
                              !.sounds = res.sounds,
                              !.xref = res.cross_ref,
                              !.warnings = res.warnings]
    /\ UNCHANGED carOthers

CarNext == CarParseSounds

\* C3: after parse_car_sounds_and_crossref, with validate on or off, every
\* table entry that was >= sfx_count or < -1 is -1 and every entry that was in
\* [-1, sfx_count) is unchanged, so no entry indexes past the sound list.
C3_CrossRefClamped ==
    car.pc = "parsed" =>
        /\ Len(car.xref) = Len(car.file.xref)
        /\ \A i \in 1..Len(car.xref) :
              LET was == car.file.xref[i]
              IN  /\ (was >= car.header.sfx_count \/ was < -1) => car.xref[i] = -1
                  /\ (was >= -1 /\ was < car.header.sfx_count) => car.xref[i] = was
                  /\ car.xref[i] < Len(car.sounds)

\* a full table decoded without validation that held an index past the sound
\* list, an index below -1 and a valid index
C3_Witness ==
    /\ car.pc = "parsed"
    /\ ~car.validate
    /\ Len(car.xref) = CROSS_REF_SIZE
    /\ \E i, j, k \in 1..CROSS_REF_SIZE :
          /\ car.file.xref[i] >= car.header.sfx_count /\ car.xref[i] = -1
          /\ car.file.xref[j] < -1 /\ car.xref[j] = -1
          /\ car.file.xref[k] = 0 /\ car.xref[k] = 0

(***************************************************************************)
(* SkeletonInference                                                       *)
(***************************************************************************)
\* bone_names=None; `if bone_names:` takes an empty list the same way
None == <<>>

\* str.lower() on ASCII bytes
Lower(str) == [i \in 1..Len(str) |->
                 IF str[i] >= 65 /\ str[i] <= 90 THEN str[i] + 32 ELSE str[i]]

\* pat in str
Contains(str, pat) ==
    \E i \in 1..(Len(str) - Len(pat) + 1) : SubSeq(str, i, i + Len(pat) - 1) = pat

FloorToken == <<102, 108, 111, 111, 114>>

\* root_idx: the first group whose name contains "floor", else 0
RootIndex(n, names) ==
    LET floors == {i \in DOMAIN names : Contains(Lower(names[i]), FloorToken)}
    IN  IF floors = {} THEN 0 ELSE CHOOSE i \in floors : \A j \in floors : i <= j

\* np.linalg.norm(p - c), squared.  The centroids of the model have integer
\* coordinates, so the squared distance is exact, and the order of two
\* lengths is the order of their squares.
Dist2(p, c) ==
    (p[1] - c[1]) * (p[1] - c[1]) + (p[2] - c[2]) * (p[2] - c[2])
        + (p[3] - c[3]) * (p[3] - c[3])

\* the 0.05 margin of the penalty test, on integer coordinates:
\* x > 0.05 iff x >= 1, x < -0.05 iff x <= -1
Crosses(p, c) == (p[1] >= 1 /\ c[1] <= -1) \/ (p[1] <= -1 /\ c[1] >= 1)

\* a link cost without the symmetry penalty
LinkCostNoPenalty(p, c) == Dist2(p, c)

\* dist, after `dist *= 50.0` for a link that crosses the centre plane, squared
LinkCost(p, c) == IF Crosses(p, c) THEN 2500 * Dist2(p, c) ELSE Dist2(p, c)

\* BestPair, were a zero distance never taken as the least
BestPairNoCoincident(pos, connected) ==
    LET cand == {ij \in connected \X (DOMAIN pos \ connected) :
                    LinkCost(pos[ij[1]], pos[ij[2]]) > 0}
        cost(ij) == LinkCost(pos[ij[1]], pos[ij[2]])
        before(a, b) ==
            \/ cost(a) < cost(b)
            \/ cost(a) = cost(b) /\ a[1] < b[1]
            \/ cost(a) = cost(b) /\ a[1] = b[1] /\ a[2] <= b[2]
    IN  IF cand = {} THEN <<-1, -1>>
        ELSE CHOOSE a \in cand : \A b \in cand : before(a, b)

\* one pass of the two nested loops: the (i, j) with the least dist, the first
\* such pair in scan order (the test is `dist < min_dist`)
BestPair(pos, connected) ==
    LET cand == {ij \in connected \X (DOMAIN pos \ connected) : TRUE}
        cost(ij) == LinkCost(pos[ij[1]], pos[ij[2]])
        before(a, b) ==
            \/ cost(a) < cost(b)
            \/ cost(a) = cost(b) /\ a[1] < b[1]
            \/ cost(a) = cost(b) /\ a[1] = b[1] /\ a[2] <= b[2]
    IN  IF cand = {} THEN <<-1, -1>>
        ELSE CHOOSE a \in cand : \A b \in cand : before(a, b)

\* for _ in range(num_bones - 1): ...; st = [parents, connected, links]
RECURSIVE Prim(_, _, _)
Prim(pos, st, k) ==
    IF k = 0 THEN st
    ELSE LET best == BestPair(pos, st.connected)
         IN  IF best[2] # -1
                THEN Prim(pos,
                          [parents |-> [st.parents EXCEPT ![best[2]] = best[1]],
                           connected |-> st.connected \cup {best[2]},
                           links |-> Append(st.links, best)],
                          k - 1)
                ELSE Prim(pos, st, k - 1)

\* infer_hierarchy_mst(centroids, bone_names)
infer_hierarchy_mst(centroids, bone_names) ==
    LET num_bones == Cardinality(DOMAIN centroids)
        root_idx == RootIndex(num_bones, bone_names)
        start == [parents |-> [i \in DOMAIN centroids |-> -1],
                  connected |-> {root_idx},
                  links |-> <<>>]
    IN  IF num_bones <= 1 THEN start
        ELSE Prim(centroids, start, num_bones - 1)

(*--- inputs of the skeleton inference ---*)
ChainLen == 2
MaxX == 2
\* the coordinates along the limbs: near, a few units on, far away
ChainYs == {1, 5, 150}

\* group 0 is a centre node; groups 1..ChainLen are the +x chain, groups
\* ChainLen+1..2*ChainLen its mirror image
PlusChain == 1..ChainLen
MinusChain == (ChainLen + 1)..(2 * ChainLen)

MirroredChains(xs, ys) ==
    [i \in 0..(2 * ChainLen) |->
        IF i = 0 THEN <<0, 0, 0>>
        ELSE IF i \in PlusChain THEN <<xs[i], ys[i], 0>>
        ELSE <<-xs[i - ChainLen], ys[i - ChainLen], 0>>]

\* names: every group "BoneK", group f "FLOoR", the last group "floor2"
NamesWithFloor(n, f, last) ==
    [i \in 0..(n - 1) |->
        IF i = f THEN <<70, 76, 79, 111, 82>>
        ELSE IF last /\ i = n - 1 THEN <<102, 108, 111, 111, 114, 50>>
        ELSE <<66, 48 + i>>]

IsSquare(n) == \E r \in 0..n : r * r = n

\* no link cost of the input is a tie that floating point could break either
\* way: a penalised and a plain length are equal only when both are integers
ExactTies(pos) ==
    ~ \E a, b, c, d \in DOMAIN pos :
        /\ Crosses(pos[a], pos[b]) /\ ~Crosses(pos[c], pos[d])
        /\ 2500 * Dist2(pos[a], pos[b]) = Dist2(pos[c], pos[d])
        /\ ~IsSquare(Dist2(pos[a], pos[b]))

\* an input of the inference
MstInput(centroids, names) ==
    [pc |-> "input", parents |-> <<>>, links |-> <<>>, centroids |-> centroids,
     names |-> names]

MstInit ==
    \E xs \in [PlusChain -> 1..MaxX], ys \in [PlusChain -> ChainYs] :
       /\ ExactTies(MirroredChains(xs, ys))
       /\ \/ mst = MstInput(MirroredChains(xs, ys), None)
          \/ \E f \in (-1)..(2 * ChainLen), last \in BOOLEAN :
                mst = MstInput(MirroredChains(xs, ys),
                               NamesWithFloor(2 * ChainLen + 1, f, last))

MstIdle == mst = [pc |-> "idle"]

MstInfer ==
    /\ mst.pc = "input"
    /\ LET res == infer_hierarchy_mst(mst.centroids, mst.names)
       IN  mst' = [mst EXCEPT !.parents = res.parents, !.links = res.links,
                              !.pc = "done"]
    /\ UNCHANGED mstOthers

MstNext == MstInfer

\* a parent link between a node of the +x chain and a node of the -x chain
CrossLinks(parents) ==
    {i \in DOMAIN parents :
        \/ i \in PlusChain /\ parents[i] \in MinusChain
        \/ i \in MinusChain /\ parents[i] \in PlusChain}

\* each chain link (centre to first node, node to next node) is shorter than
\* 50 times the least distance between a +x node and a -x node
ChainLinksShort(pos) ==
    LET minCross == CHOOSE m \in {Dist2(pos[a], pos[b]) : a \in PlusChain, b \in MinusChain} :
                       \A a \in PlusChain, b \in MinusChain : m <= Dist2(pos[a], pos[b])
        prev(i) == IF i = 1 \/ i = ChainLen + 1 THEN 0 ELSE i - 1
    IN  \A i \in PlusChain \cup MinusChain : Dist2(pos[prev(i)], pos[i]) < 2500 * minCross

Limb == Pow2(26)

Big(hi, lo) == [hi |-> hi, lo |-> lo]
BigZero == Big(0, 0)

BigGeq(x, y) == x.hi > y.hi \/ (x.hi = y.hi /\ x.lo >= y.lo)

BigSub(x, y) ==
    IF x.lo >= y.lo THEN Big(x.hi - y.hi, x.lo - y.lo)
    ELSE Big(x.hi - y.hi - 1, x.lo + Limb - y.lo)

BigDouble(x) == Big(2 * x.hi + (2 * x.lo) \div Limb, (2 * x.lo) % Limb)

BigInc(x) == IF x.lo + 1 = Limb THEN Big(x.hi + 1, 0) ELSE Big(x.hi, x.lo + 1)

FloorLog2(n) == CHOOSE e \in 0..30 : Pow2(e) <= n /\ (e = 30 \/ n < Pow2(e + 1))

F64Zero == [m |-> BigZero, e |-> 0]

\* float(n) for an integer 0 <= n < 2^26: exact
F64OfInt(n) ==
    IF n = 0 THEN F64Zero
    ELSE [m |-> Big(n * Pow2(26 - FloorLog2(n)), 0), e |-> FloorLog2(n)]

\* k more quotient bits of rem / b by long division; st = [q, rem]
RECURSIVE DivBits(_, _, _)
DivBits(st, b, k) ==
    IF k = 0 THEN st
    ELSE LET r2 == BigDouble(st.rem)
             q2 == BigDouble(st.q)
         IN  IF BigGeq(r2, b)
                THEN DivBits([q |-> BigInc(q2), rem |-> BigSub(r2, b)], b, k - 1)
                ELSE DivBits([q |-> q2, rem |-> r2], b, k - 1)

\* x / y in double arithmetic, y # 0: the quotient of the significands to 53
\* bits, rounded to nearest, ties to even
F64Div(x, y) ==
    IF x.m = BigZero THEN F64Zero
    ELSE LET ge == BigGeq(x.m, y.m)
             a == IF ge THEN x.m ELSE BigDouble(x.m)
             e == IF ge THEN x.e - y.e ELSE x.e - y.e - 1
             st == DivBits([q |-> Big(0, 1), rem |-> BigSub(a, y.m)], y.m, 52)
             r2 == BigDouble(st.rem)
             up == IF r2 = y.m THEN st.q.lo % 2 = 1 ELSE BigGeq(r2, y.m)
             q == IF up THEN BigInc(st.q) ELSE st.q
         IN  IF q.hi = Pow2(27) THEN [m |-> Big(Pow2(26), 0), e |-> e + 1]
             ELSE [m |-> q, e |-> e]

\* int(r) for a double r >= 0 (mutant of the count: the step without + 0.5)
F64Floor(r) ==
    IF r.m = BigZero \/ r.e < 0 THEN 0
    ELSE r.m.hi \div Pow2(26 - r.e)

\* int(r + 0.5) for a double 0 <= r < 2^26.
\*   r >= 1: 0.5 is a multiple of the unit in the last place of r, so the sum
\*     is exact unless it carries into the next binade, and there the
\*     rounding cannot reach the next integer; the result is the integer part
\*     of r plus the first fraction bit of r.
\*   0.5 <= r < 1: the sum is in [1, 1.5].
\*   r < 0.5: the sum is below 1, and rounds to 1.0 only for the double just
\*     below 0.5 (a tie, resolved to the even significand).
IntOfPlusHalf(r) ==
    IF r.m = BigZero THEN 0
    ELSE IF r.e >= 0
        THEN LET k == 52 - r.e
                 half == IF k >= 27 THEN (r.m.hi \div Pow2(k - 27)) % 2
                         ELSE r.m.lo \div Pow2(25)
             IN  r.m.hi \div Pow2(k - 26) + half
    ELSE IF r.e = -1 THEN 1
    ELSE IF r.e = -2 /\ r.m = Big(Pow2(27) - 1, Limb - 1) THEN 1
    ELSE 0

\* int(((end - start) / frame_step)) + 1: the count without the + 0.5
NumSamplesTruncated(start, end, frame_step) ==
    F64Floor(F64Div(F64OfInt(end - start), frame_step)) + 1

\* num_samples = int(((end - start) / frame_step) + 0.5) + 1
NumSamples(start, end, frame_step) ==
    IntOfPlusHalf(F64Div(F64OfInt(end - start), frame_step)) + 1

\* if kps <= 0: kps = 1
SafeKps(kps) == IF kps <= 0 THEN 1 ELSE kps

\* frame_step = scene_fps / kps
FrameStep(scene_fps, kps) == F64Div(F64OfInt(scene_fps), F64OfInt(SafeKps(kps)))

(*--- inputs of bake_range ---*)
MaxFps == 30
MinKps == -1
MaxKps == 10
MaxStart == 1
MaxRange == 29

BakeInit ==
    \E fps \in 1..MaxFps, start \in 0..MaxStart, d \in 0..MaxRange :
       \* the action's carnivores_kps, or int(scene.render.fps) when it has none
       \E kps \in (MinKps..MaxKps) \cup {fps} :
          bake = [pc |-> "call", fps |-> fps, kps |-> kps, start |-> start,
                  end |-> start + d, frame_step |-> F64Zero, num_samples |-> 0]

BakeIdle == bake = [pc |-> "idle"]

\* bake_range up to the sampling loop
BakeRange ==
    /\ bake.pc = "call"
    /\ LET frame_step == FrameStep(bake.fps, bake.kps)
       IN  bake' = [bake EXCEPT
                      !.frame_step = frame_step,
                      !.num_samples = NumSamples(bake.start, bake.end, frame_step),
                      !.pc = "returned"]
    /\ UNCHANGED bakeOthers

BakeNext == BakeRange

\* round_half_up(n / d) for integers n >= 0, d > 0, in exact arithmetic
RoundHalfUpDiv(n, d) == (2 * n + d) \div (2 * d)

\* C5 as claimed: with fps 30, kps 10 and the range 0..29, bake_range takes
\* exactly 10 samples.
C5_ExampleTakesTen ==
    (bake.pc = "returned" /\ bake.fps = 30 /\ bake.kps = 10
        /\ bake.start = 0 /\ bake.end = 29)
    => bake.num_samples = 10

\* C5 as amended: with fps 30, kps 10 and the range 0..29, bake_range takes
\* exactly 11 samples (frame_step 3.0, 29 / 3 = 9.67 rounds to 10, plus 1).
C5_ExampleTakesEleven ==
    (bake.pc = "returned" /\ bake.fps = 30 /\ bake.kps = 10
        /\ bake.start = 0 /\ bake.end = 29)
    => bake.num_samples = 11

C5_Witness ==
    /\ bake.pc = "returned"
    /\ bake.fps = 30 /\ bake.kps = 10 /\ bake.start = 0 /\ bake.end = 29
    /\ bake.frame_step = F64OfInt(3)
    /\ bake.num_samples = 11

\* C6: for every integer range end >= start, fps >= 1 and kps >= 1,
\* bake_range takes round_half_up((end - start) / (fps / kps)) + 1 samples
\* (end - start + 1 when fps = kps), and a kps <= 0 counts as 1.
C6_SampleCountRoundsHalfUp ==
    bake.pc = "returned"
    => /\ bake.num_samples
            = RoundHalfUpDiv((bake.end - bake.start) * SafeKps(bake.kps), bake.fps) + 1
       /\ bake.fps = bake.kps => bake.num_samples = bake.end - bake.start + 1

(***************************************************************************)
(* The 3DF pipeline: parse_3df, the import operator, the exporters         *)
(***************************************************************************)
(*--- single precision for the UV conversions: [m, k] is m / 2^k, |m| < 2^24 ---*)
RECURSIVE F32DivBits(_, _, _, _)
F32DivBits(q, r, d, k) ==
    IF q >= Pow2(23) THEN [q |-> q, r |-> r, k |-> k]
    ELSE IF 2 * r >= d THEN F32DivBits(2 * q + 1, 2 * r - d, d, k + 1)
    ELSE F32DivBits(2 * q, 2 * r, d, k + 1)

\* the same number with the least k >= 0
RECURSIVE F32Reduce(_)
F32Reduce(x) ==
    IF x.k > 0 /\ x.m % 2 = 0 THEN F32Reduce([m |-> x.m \div 2, k |-> x.k - 1]) ELSE x

\* float32(n) / d, correctly rounded, by long division (0 <= n < 2^23, 0 < d < 2^23)
F32DivInt(n, d) ==
    IF n = 0 THEN F32Zero
    ELSE LET st == F32DivBits(n \div d, n % d, d, 0)
             up == 2 * st.r > d \/ (2 * st.r = d /\ st.q % 2 = 1)
         IN  F32Reduce([m |-> IF up THEN st.q + 1 ELSE st.q, k |-> st.k])

Abs(n) == IF n < 0 THEN -n ELSE n

\* the least s with |t| < 2^(24 + s)
RECURSIVE F32Excess(_, _)
F32Excess(t, s) == IF Abs(t) < Pow2(24 + s) THEN s ELSE F32Excess(t, s + 1)

\* 1.0 - x in float32 (x.k <= 30)
F32OneMinus(x) ==
    LET t == Pow2(x.k) - x.m
        s == F32Excess(t, 0)
    IN  F32Reduce([m |-> RoundHalfEvenDiv(t, Pow2(s)), k |-> x.k - s])

\* x * a in float32 for an integer 0 <= a < 2^8; the product of the
\* significand is formed in two parts, H * 256 + L
F32MulSmall(x, a) ==
    LET sign == IF x.m < 0 THEN -1 ELSE 1
        mh == Abs(x.m) \div 256
        ml == Abs(x.m) % 256
        H == mh * a + (ml * a) \div 256
        L == (ml * a) % 256
        s == CHOOSE c \in 0..8 : H < Pow2(16 + c) /\ (c = 0 \/ H >= Pow2(15 + c))
        q == H * Pow2(8 - s) + L \div Pow2(s)
        rem == L % Pow2(s)
        up == 2 * rem > Pow2(s) \/ (2 * rem = Pow2(s) /\ q % 2 = 1)
    IN  F32Reduce([m |-> sign * (IF up THEN q + 1 ELSE q), k |-> x.k - s])

(*--- records of the file format ---*)
Face(v, u_tex, v_tex, flags, dmask, distant, next, group, reserv) ==
    [v |-> v, u_tex |-> u_tex, v_tex |-> v_tex, flags |-> flags, dmask |-> dmask,
     distant |-> distant, next |-> next, group |-> group, reserv |-> reserv]

Vertex(finite, owner, hide) == [finite |-> finite, owner |-> owner, hide |-> hide]

Header3df(nv, nf, nb, texture_size) ==
    [vertex_count |-> nv, face_count |-> nf,
     bone_count |-> nb, texture_size |-> texture_size]

\* itemsize of HEADER_DTYPE, FACE_DTYPE, VERTEX_DTYPE, BONE_DTYPE
HeaderBytes == 16
FaceBytes == 64
VertexBytes == 16
BoneBytes == 48

\* np.fromfile(file, dtype, count): the number of whole records it returns
\* from position pos, and the position afterwards
ReadCount(file_size, pos, itemsize, count) ==
    IF pos >= file_size THEN 0 ELSE Min2(count, (file_size - pos) \div itemsize)

ReadEnd(file_size, pos, itemsize, count) ==
    IF ReadCount(file_size, pos, itemsize, count) = count
        THEN pos + count * itemsize ELSE Max2(pos, file_size)

FlipTriple(t, flip) == IF flip THEN Reverse(t) ELSE t

\* the U and V triples of an encoder that leaves them in mesh order
KeepUvTriple(t, flip) == t

\* all_us[:, ::-1] / all_vs[:, ::-1] of the encoders
FlipUvTriple(t, flip) == IF flip THEN Reverse(t) ELSE t

\* one corner's (u, v) of parse_3df_faces
DecodeUv(u_tex, v_tex, texture_height) ==
    [u |-> F32DivInt(u_tex, 255),
     v |-> F32OneMinus(F32DivInt(v_tex,
              Max2(IF texture_height = 0 THEN 256 ELSE texture_height, 1)))]

\* parse_3df_faces with uvs sized after the records read
parse_3df_faces_sized_by_read(file, pos, face_count, texture_height, flip_handedness) ==
    LET n == ReadCount(file.size, pos, FaceBytes, face_count)
        faces == [i \in 1..n |->
                    [file.faces[i] EXCEPT
                        !.v = FlipTriple(@, flip_handedness),
                        !.u_tex = FlipTriple(@, flip_handedness),
                        !.v_tex = FlipTriple(@, flip_handedness)]]
    IN  [raised |-> FALSE, faces |-> faces,
         uvs |-> [i \in 1..n |-> [c \in 1..3 |->
                    DecodeUv(faces[i].u_tex[c], faces[i].v_tex[c], texture_height)]]]

\* parse_3df_faces(file, face_count, texture_height, flip_handedness); uvs is
\* kept face by face, three corners each.  The assignment into the
\* (face_count * 3)-row array raises when fewer records were read.
parse_3df_faces(file, pos, face_count, texture_height, flip_handedness) ==
    LET n == ReadCount(file.size, pos, FaceBytes, face_count)
        faces == [i \in 1..n |->
                    [file.faces[i] EXCEPT
                        !.v = FlipTriple(@, flip_handedness),
                        !.u_tex = FlipTriple(@, flip_handedness),
                        !.v_tex = FlipTriple(@, flip_handedness)]]
    IN  IF n # face_count
            THEN [raised |-> TRUE, faces |-> <<>>, uvs |-> <<>>]
        ELSE [raised |-> FALSE, faces |-> faces,
              uvs |-> [i \in 1..n |-> [c \in 1..3 |->
                         DecodeUv(faces[i].u_tex[c], faces[i].v_tex[c], texture_height)]]]

\* validate_3df_header(header, filepath, context)
validate_3df_header(header, file_size, warnings) ==
    LET expected_size == HeaderBytes + header.vertex_count * VertexBytes
                            + header.face_count * FaceBytes
                            + header.bone_count * BoneBytes + header.texture_size
        w == warnings
              \o (IF header.vertex_count > 1024 THEN <<"high_vertex_count">> ELSE <<>>)
              \o (IF header.face_count > 1024 THEN <<"high_face_count">> ELSE <<>>)
              \o (IF header.bone_count > 1024 THEN <<"high_bone_count">> ELSE <<>>)
              \o (IF header.texture_size \div 512 > 512
                    THEN <<"high_texture_height">> ELSE <<>>)
    IN  IF \/ header.vertex_count <= 0 \/ header.face_count <= 0
           \/ header.vertex_count > 2048 \/ header.face_count > 2048
           \/ header.bone_count > 2048 \/ header.texture_size > 131072
           \/ header.texture_size % 512 # 0
           \/ file_size < expected_size
            THEN [raised |-> TRUE, warnings |-> warnings]
        ELSE [raised |-> FALSE,
              warnings |-> w \o (IF file_size > expected_size
                                   THEN <<"trailing_bytes">> ELSE <<>>)]

\* validate_3df_faces(faces, face_count, vertex_count, texture_height, context).
\* texture_height - 1 is computed on the header's unsigned 32-bit scalar: at
\* texture_height = 0 it is -1 where the scalar is promoted to a wider signed
\* type and 2^32 - 1 where it keeps its width (wraps); both builds exist.
validate_3df_faces(faces, face_count, vertex_count, texture_height, wraps, warnings) ==
    LET clampV == [i \in 1..Len(faces) |->
                     [c \in 1..3 |-> Clip(faces[i].v[c], 0, vertex_count - 1)]]
        badV == \E i \in 1..Len(faces), c \in 1..3 : faces[i].v[c] >= vertex_count
        degenerate == \E i \in 1..Len(faces) :
                         \/ clampV[i][1] = clampV[i][2]
                         \/ clampV[i][2] = clampV[i][3]
                         \/ clampV[i][1] = clampV[i][3]
        badU == \E i \in 1..Len(faces), c \in 1..3 : faces[i].u_tex[c] > 255
        unbounded == wraps /\ texture_height = 0
        max_v == Max2(texture_height - 1, 0)
        badT == ~unbounded
                /\ \E i \in 1..Len(faces), c \in 1..3 : faces[i].v_tex[c] > max_v
        known_mask == {0, 1, 2, 3, 4, 5, 6, 7, 15}
        unknownBits(f) == \E b \in 0..15 : b \notin known_mask /\ (f \div Pow2(b)) % 2 = 1
        nz(field) == \E i \in 1..Len(faces) : faces[i][field] # 0
        w == warnings
              \o (IF badV THEN <<"face_index_clamped">> ELSE <<>>)
              \o (IF degenerate THEN <<"face_degenerate">> ELSE <<>>)
              \o (IF badU THEN <<"face_u_clipped">> ELSE <<>>)
              \o (IF badT THEN <<"face_v_clipped">> ELSE <<>>)
              \o (IF \E i \in 1..Len(faces) : unknownBits(faces[i].flags)
                    THEN <<"face_unknown_flags">> ELSE <<>>)
              \o (IF nz("dmask") THEN <<"face_dmask">> ELSE <<>>)
              \o (IF nz("distant") THEN <<"face_distant">> ELSE <<>>)
              \o (IF nz("next") THEN <<"face_next">> ELSE <<>>)
              \o (IF nz("group") THEN <<"face_group">> ELSE <<>>)
              \o (IF \E i \in 1..Len(faces), b \in 1..12 : faces[i].reserv[b] # 0
                    THEN <<"face_reserv">> ELSE <<>>)
    IN  IF Len(faces) # face_count
            THEN [raised |-> TRUE, faces |-> faces, warnings |-> warnings]
        ELSE [raised |-> FALSE,
              faces |-> [i \in 1..Len(faces) |->
                           [faces[i] EXCEPT
                              !.v = clampV[i],
                              !.u_tex = IF badU THEN [c \in 1..3 |-> Clip(@[c], 0, 255)]
                                        ELSE @,
                              !.v_tex = IF badT THEN [c \in 1..3 |-> Clip(@[c], 0, max_v)]
                                        ELSE @]],
              warnings |-> w]

\* validate_3df_vertices, were the owner test `owner > bone_count`
validate_3df_vertices_owner_above(vertices, vertex_count, nbones, warnings) ==
    LET reset == IF nbones > 0
                    THEN {i \in 1..Len(vertices) : vertices[i].owner > nbones}
                 ELSE {i \in 1..Len(vertices) : vertices[i].owner # 0}
    IN  [raised |-> Len(vertices) # vertex_count
                     \/ \E i \in 1..Len(vertices) : ~vertices[i].finite,
         vertices |-> [i \in 1..Len(vertices) |->
                         IF i \in reset THEN [vertices[i] EXCEPT !.owner = 0]
                         ELSE vertices[i]],
         warnings |-> warnings
             \o (IF reset # {} THEN <<"vertex_owner_clamped">> ELSE <<>>)]

\* validate_3df_vertices(vertices, vertex_count, bone_count, context)
validate_3df_vertices(vertices, vertex_count, nbones, warnings) ==
    LET invalid == {i \in 1..Len(vertices) : vertices[i].owner >= nbones}
        nonzero == {i \in 1..Len(vertices) : vertices[i].owner # 0}
        reset == IF nbones > 0 THEN invalid ELSE nonzero
        w == warnings
              \o (IF \E i \in 1..Len(vertices) : vertices[i].hide # 0
                    THEN <<"vertex_hide">> ELSE <<>>)
              \o (IF reset # {}
                    THEN (IF nbones > 0 THEN <<"vertex_owner_clamped">>
                          ELSE <<"vertex_owner_no_bones">>)
                    ELSE <<>>)
    IN  IF Len(vertices) # vertex_count
            THEN [raised |-> TRUE, vertices |-> vertices, warnings |-> warnings]
        ELSE IF \E i \in 1..Len(vertices) : ~vertices[i].finite
            THEN [raised |-> TRUE, vertices |-> vertices, warnings |-> warnings]
        ELSE [raised |-> FALSE,
              vertices |-> [i \in 1..Len(vertices) |->
                              IF i \in reset THEN [vertices[i] EXCEPT !.owner = 0]
                              ELSE vertices[i]],
              warnings |-> w]

\* validate_3df_texture(texture_raw, texture_size, context): the alpha and
\* channel tests cannot fail on 16-bit words; np.any of no words is False
validate_3df_texture(texture_raw, texture_size, warnings) ==
    IF Len(texture_raw) # texture_size \div 2
        THEN [raised |-> TRUE, warnings |-> warnings]
    ELSE [raised |-> FALSE,
          warnings |-> warnings
              \o (IF \A i \in 1..Len(texture_raw) : texture_raw[i] = 0
                    THEN <<"texture_zero">> ELSE <<>>)]

\* what parse_3df hands back when an exception leaves it
Raised3df ==
    [raised |-> TRUE, header |-> Header3df(0, 0, 0, 0), faces |-> <<>>, uvs |-> <<>>,
     vertices |-> <<>>, bones |-> <<>>, texture_is_none |-> TRUE, texture |-> <<>>,
     texture_height |-> 0, warnings |-> <<>>]

\* parse_3df(filepath, validate, parse_texture, flip_handedness).  The file is
\* at least a header long.  bone_names is not modelled.
parse_3df(file, validate, parse_texture, flip_handedness, wraps) ==
    LET header == file.header
        texture_height == TextureHeight(header.texture_size)
        hv == validate_3df_header(header, file.size, <<>>)
        \* the non-validating branch calls parse_3df_faces without the flag
        fp == parse_3df_faces(file, HeaderBytes, header.face_count, texture_height,
                              IF validate THEN flip_handedness ELSE TRUE)
        fv == validate_3df_faces(fp.faces, header.face_count, header.vertex_count,
                                 texture_height, wraps, hv.warnings)
        pos1 == ReadEnd(file.size, HeaderBytes, FaceBytes, header.face_count)
        nv == ReadCount(file.size, pos1, VertexBytes, header.vertex_count)
        vertices == SubSeq(file.vertices, 1, nv)
        vv == validate_3df_vertices(vertices, header.vertex_count, header.bone_count,
                                    fv.warnings)
        pos2 == ReadEnd(file.size, pos1, VertexBytes, header.vertex_count)
        nb == ReadCount(file.size, pos2, BoneBytes, header.bone_count)
        read_bones == [i \in 0..(nb - 1) |-> file.bones[i]]
        bv == validate_3df_bones(read_bones, header.bone_count, vv.warnings)
        pos3 == ReadEnd(file.size, pos2, BoneBytes, header.bone_count)
        nw == ReadCount(file.size, pos3, 2, header.texture_size \div 2)
        tp == parse_3df_texture(SubSeq(file.texture, 1, nw), header.texture_size,
                                texture_height)
        tv == validate_3df_texture(tp.texture_raw, header.texture_size, bv.warnings)
    IN  IF validate
            THEN IF hv.raised \/ fp.raised \/ fv.raised \/ vv.raised \/ bv.raised
                    \/ tp.raised \/ tv.raised
                    THEN Raised3df
                 ELSE [raised |-> FALSE, header |-> header, faces |-> fv.faces,
                       uvs |-> fp.uvs, vertices |-> vv.vertices, bones |-> bv.bones,
                       texture_is_none |-> FALSE, texture |-> tp.texture,
                       texture_height |-> texture_height, warnings |-> tv.warnings]
        ELSE IF fp.raised \/ (parse_texture /\ tp.raised)
            THEN Raised3df
        ELSE [raised |-> FALSE, header |-> header, faces |-> fp.faces,
              uvs |-> fp.uvs, vertices |-> vertices, bones |-> read_bones,
              texture_is_none |-> ~parse_texture,
              texture |-> IF parse_texture THEN tp.texture ELSE <<>>,
              texture_height |-> texture_height, warnings |-> <<>>]

\* CARNIVORES_OT_import_3df.execute after parse_3df returned: the mesh
\* (create_mesh_object), its UV map (create_uv_map), the 3df_flags attribute
\* (stored only when some flag is set), one hook per bone, and the image in a
\* material.  host_accepts: whether the host creates an image of height 0.
import_3df(result, opts, host_accepts) ==
    LET with_image == opts.import_textures /\ ~result.texture_is_none
    IN  IF with_image /\ result.texture_height = 0 /\ ~host_accepts
            THEN [failed |-> TRUE]
        ELSE [failed |-> FALSE,
              vertex_count |-> Len(result.vertices),
              loops |-> [i \in 1..Len(result.faces) |-> result.faces[i].v],
              uvs |-> result.uvs,
              has_flags |-> \E i \in 1..Len(result.faces) : result.faces[i].flags # 0,
              flags |-> [i \in 1..Len(result.faces) |-> result.faces[i].flags],
              hooks |-> Cardinality(DOMAIN result.bones),
              has_image |-> with_image /\ opts.create_materials,
              image |-> IF with_image /\ opts.create_materials
                          THEN [width |-> TEXTURE_WIDTH,
                                height |-> result.texture_height,
                                pixels |-> result.texture]
                          ELSE [width |-> 0, height |-> 0, pixels |-> <<>>]]

\* get_face_attribute_int(mesh, "3df_flags", default=0)
get_face_attribute_int(obj) ==
    [i \in 1..Len(obj.loops) |-> IF obj.has_flags THEN obj.flags[i] % 65536 ELSE 0]

\* len(bone_names) of collect_bones_and_owners: the hooks, or one "Default"
ExportBoneCount(obj) == IF obj.hooks > 0 THEN obj.hooks ELSE 1

\* np.clip(np.round(all_us * 255), 0, 255)
EncodeU(u, flip_u) ==
    Clip(F32Round(F32MulSmall(IF flip_u THEN F32OneMinus(u) ELSE u, 255)), 0, 255)

\* all_vs = 1.0 - all_vs; np.clip(np.round(all_vs * texture_height), 0, texture_height)
EncodeV(v, flip_v, texture_height) ==
    LET vs == F32OneMinus(v)
    IN  Clip(F32Round(F32MulSmall(IF flip_v THEN F32OneMinus(vs) ELSE vs,
                                  texture_height)), 0, texture_height)

ZeroTriple == <<0, 0, 0>>
Zero12 == [b \in 1..12 |-> 0]

\* the faces of gather_mesh_data and gather_3dn_data: with_uvs tells whether
\* the UV branch is taken
GatherFaces(obj, with_uvs, texture_height, flip_u, flip_v, flip_handedness) ==
    [i \in 1..Len(obj.loops) |->
        Face(FlipTriple(obj.loops[i], flip_handedness),
             IF with_uvs
                THEN FlipUvTriple([c \in 1..3 |-> EncodeU(obj.uvs[i][c].u, flip_u)],
                                  flip_handedness)
                ELSE ZeroTriple,
             IF with_uvs
                THEN FlipUvTriple([c \in 1..3 |->
                                     EncodeV(obj.uvs[i][c].v, flip_v, texture_height)],
                                  flip_handedness)
                ELSE ZeroTriple,
             get_face_attribute_int(obj)[i], 0, 0, 0, 0, Zero12)]

RaisedExport(kind) ==
    [kind |-> kind, raised |-> TRUE, header |-> Header3df(0, 0, 0, 0), faces |-> <<>>,
     hide |-> <<>>, hidden |-> <<>>, texture_is_none |-> TRUE, texture_raw |-> <<>>,
     flip_handedness |-> FALSE, flip_u |-> FALSE, flip_v |-> FALSE,
     with_uvs |-> FALSE, texture_height |-> 0]

\* export_3df(filepath, obj, export_matrix, export_textures, flip_u, flip_v,
\* flip_handedness): gather_mesh_data and the records written
export_3df(obj, export_textures, flip_u, flip_v, flip_handedness) ==
    LET texture_height == IF export_textures /\ obj.has_image THEN obj.image.height ELSE 0
        packed == image_to_argb1555(obj.image)
    IN  IF export_textures /\ ~obj.has_image THEN RaisedExport("3df")
        ELSE IF export_textures
                /\ (packed.raised \/ texture_height = 0
                    \/ Len(packed.packed) # TEXTURE_WIDTH * texture_height)
            THEN RaisedExport("3df")
        ELSE [kind |-> "3df", raised |-> FALSE,
              header |-> Header3df(obj.vertex_count, Len(obj.loops), ExportBoneCount(obj),
                                   TEXTURE_WIDTH * texture_height * 2),
              faces |-> GatherFaces(obj, texture_height > 0, texture_height,
                                    flip_u, flip_v, flip_handedness),
              hide |-> [i \in 1..obj.vertex_count |-> 0],
              hidden |-> [i \in 0..(ExportBoneCount(obj) - 1) |-> 0],
              texture_is_none |-> ~export_textures,
              texture_raw |-> IF export_textures THEN packed.packed ELSE <<>>,
              flip_handedness |-> flip_handedness, flip_u |-> flip_u, flip_v |-> flip_v,
              with_uvs |-> texture_height > 0, texture_height |-> texture_height]

\* gather_3dn_data(obj, export_matrix, ..., flip_u, flip_v, flip_handedness):
\* v1..v3, tax..tcy and flags as a face record; a 3DN vertex has no hide
gather_3dn_data(obj, flip_u, flip_v, flip_handedness) ==
    LET found == IF obj.has_image THEN obj.image.height ELSE 0
        texture_height == IF found = 0 THEN 256 ELSE found
    IN  [kind |-> "3dn", raised |-> FALSE,
         header |-> Header3df(obj.vertex_count, Len(obj.loops), ExportBoneCount(obj), 0),
         faces |-> GatherFaces(obj, TRUE, texture_height, flip_u, flip_v, flip_handedness),
         hide |-> <<>>,
         hidden |-> [i \in 0..(ExportBoneCount(obj) - 1) |-> 0],
         texture_is_none |-> TRUE, texture_raw |-> <<>>,
         flip_handedness |-> flip_handedness, flip_u |-> flip_u, flip_v |-> flip_v,
         with_uvs |-> TRUE, texture_height |-> texture_height]

(*--- inputs of the 3DF pipeline ---*)
MaxFaces3df == 2
MaxBones3df == 2

FaceCatalogue ==
    << \* one plain triangle, every other field zero
       Face(<<0, 1, 2>>, ZeroTriple, ZeroTriple, 0, 0, 0, 0, 0, Zero12),
       \* distinct UVs at the three corners, known flags
       Face(<<0, 1, 2>>, <<0, 128, 255>>, <<0, 1, 2>>, 32769, 0, 0, 0, 0, Zero12),
       \* the legacy fields in use, an unknown flag bit
       Face(<<2, 0, 1>>, <<255, 64, 2>>, <<1, 0, 1>>, 256, 1, 7, 1, 2,
            [b \in 1..12 |-> IF b = 12 THEN 9 ELSE 0]),
       \* index and UVs out of range
       Face(<<0, 1, 5>>, <<300, 0, 3>>, <<0, 3, 1>>, 0, 0, 0, 0, 0, Zero12),
       \* degenerate
       Face(<<0, 0, 1>>, <<2, 2, 2>>, ZeroTriple, 2, 0, 0, 0, 0, Zero12) >>

\* n faces of the catalogue, from entry first on
FaceList(first, n) ==
    [i \in 1..n |-> FaceCatalogue[((first + i - 2) % Len(FaceCatalogue)) + 1]]

VertexList(kind) ==
    [i \in 1..3 |->
        Vertex(~(kind = "nan" /\ i = 1),
               IF kind = "owned" /\ i = 3 THEN 1 ELSE 0,
               IF kind = "hidden" /\ i = 2 THEN 1 ELSE 0)]

BoneList(n, hidden) ==
    [i \in 0..(n - 1) |-> Bone(<<66, 48 + i>>, i - 1, TRUE, hidden)]

TextureWords(texture_size) ==
    IF texture_size = 1024 THEN [i \in 1..512 |-> 0]
    ELSE TexBuffer(texture_size \div 2, 12345, 33)

ExpectedSize(header) ==
    HeaderBytes + header.face_count * FaceBytes + header.vertex_count * VertexBytes
        + header.bone_count * BoneBytes + header.texture_size

\* a file with its records, cut (or padded) to size bytes
File3df(header, faces, vertices, fbones, size) ==
    [header |-> header, faces |-> faces, vertices |-> vertices, bones |-> fbones,
     texture |-> TextureWords(header.texture_size), size |-> size]

WholeFile(faces, vertices, fbones, texture_size) ==
    LET header == Header3df(Len(vertices), Len(faces), Cardinality(DOMAIN fbones),
                            texture_size)
    IN  File3df(header, faces, vertices, fbones, ExpectedSize(header))

\* vertex_count=3, face_count=1, bone_count=0, texture_size=0
MinimalFile == WholeFile(FaceList(1, 1), VertexList("plain"), <<>>, 0)

\* whole files: the faces vary
FaceFiles ==
    {WholeFile(FaceList(first, n), VertexList("plain"), <<>>, ts) :
        first \in 1..Len(FaceCatalogue), n \in 1..MaxFaces3df, ts \in {0, 512, 1024}}

\* whole files: the vertices and the bones vary
RecordFiles ==
    {WholeFile(FaceList(first, 1), VertexList(kind), BoneList(n, hidden), 0) :
        first \in {1, 3}, kind \in {"plain", "hidden", "owned", "nan"},
        n \in 0..MaxBones3df, hidden \in {0, 1}}

\* the sizes a file with this header is cut (or padded) to
CutSizes(header) ==
    {HeaderBytes + 8 * c : c \in
        {c \in 0..200 :
            /\ c % 2 = 0 \/ c < 12
            /\ HeaderBytes + 8 * c
                 <= Min2(HeaderBytes + MaxFaces3df * FaceBytes + 3 * VertexBytes
                            + BoneBytes + 512,
                         ExpectedSize(header)) + 16}}

\* files shorter or longer than their header says; a face_count of 2049 is
\* over the validator's limit
CutFiles ==
    UNION {{File3df(Header3df(3, nf, nb, ts), FaceList(2, Min2(nf, MaxFaces3df + 1)),
                    VertexList("plain"), BoneList(nb, 0), size) :
                size \in CutSizes(Header3df(3, nf, nb, ts))} :
           nf \in (1..MaxFaces3df) \cup {2049}, nb \in {0, 1}, ts \in {0, 512, 100}}

Options3df(validate, import_textures, create_materials, flip_handedness) ==
    [validate |-> validate, import_textures |-> import_textures,
     create_materials |-> create_materials, flip_handedness |-> flip_handedness]

DfInit ==
    /\ df_pc = "file"
    /\ df_result = <<>>
    /\ df_obj = <<>>
    /\ df_out = <<>>
    /\ \/ /\ df_file \in FaceFiles \cup RecordFiles
          /\ \E validate, import_textures, create_materials, flip \in BOOLEAN :
                /\ import_textures \/ create_materials
                /\ df_opts = Options3df(validate, import_textures, create_materials, flip)
       \/ /\ df_file \in CutFiles
          /\ \E validate, import_textures \in BOOLEAN :
                df_opts = Options3df(validate, import_textures, TRUE, TRUE)

DfIdle ==
    /\ df_pc = "idle"
    /\ df_file = <<>>
    /\ df_opts = <<>>
    /\ df_result = <<>>
    /\ df_obj = <<>>
    /\ df_out = <<>>

\* parse_3df, as the import operator calls it
DfParse ==
    /\ df_pc = "file"
    /\ \E wraps \in BOOLEAN :
          df_result' = parse_3df(df_file, df_opts.validate, df_opts.import_textures,
                                 df_opts.flip_handedness, wraps)
    /\ df_pc' = IF df_result'.raised THEN "failed" ELSE "parsed"
    /\ UNCHANGED <<df_file, df_opts, df_obj, df_out, dfOthers>>

\* the rest of CARNIVORES_OT_import_3df.execute
DfImport ==
    /\ df_pc = "parsed"
    /\ \E host_accepts \in BOOLEAN :
          df_obj' = import_3df(df_result, df_opts, host_accepts)
    /\ df_pc' = IF df_obj'.failed THEN "failed" ELSE "imported"
    /\ UNCHANGED <<df_file, df_opts, df_result, df_out, dfOthers>>

DfExport3df ==
    /\ df_pc = "imported"
    /\ \E export_textures, flip_u, flip_v, flip \in BOOLEAN :
          df_out' = export_3df(df_obj, export_textures, flip_u, flip_v, flip)
    /\ df_pc' = "exported"
    /\ UNCHANGED <<df_file, df_opts, df_result, df_obj, dfOthers>>

DfExport3dn ==
    /\ df_pc = "imported"
    /\ \E flip_u, flip_v, flip \in BOOLEAN :
          df_out' = gather_3dn_data(df_obj, flip_u, flip_v, flip)
    /\ df_pc' = "exported"
    /\ UNCHANGED <<df_file, df_opts, df_result, df_obj, dfOthers>>

DfNext == DfParse \/ DfImport \/ DfExport3df \/ DfExport3dn

\* the header's face_count implies more face-record bytes than the file holds
TruncatedFaces(file) == file.size < HeaderBytes + file.header.face_count * FaceBytes

\* C7: parse_3df on a file whose header face_count implies more face-record
\* bytes than the file holds raises and returns no model, with validate=True
\* and with validate=False.
C7_TruncatedFileRaises ==
    (df_pc # "file" /\ TruncatedFaces(df_file))
        => (df_pc = "failed" /\ df_result = Raised3df)

\* without validation, one whole face record present and the second cut short
C7_Witness ==
    /\ df_pc = "failed"
    /\ ~df_opts.validate
    /\ df_file.header.face_count = 2
    /\ df_file.size > HeaderBytes + FaceBytes
    /\ TruncatedFaces(df_file)
    /\ df_result.raised

\* C8: decoding the minimal file (vertex_count=3, face_count=1, bone_count=0,
\* texture_size=0, one non-degenerate triangle, all other fields zero) returns
\* an empty warning list and a model with exactly 3 vertices, 1 face, an empty
\* bone array and a texture that is None.
C8_MinimalFileDecodesClean ==
    (df_pc # "file" /\ df_file = MinimalFile)
        => /\ ~df_result.raised
           /\ df_result.warnings = <<>>
           /\ Len(df_result.vertices) = 3
           /\ Len(df_result.faces) = 1
           /\ df_result.bones = <<>>
           /\ df_result.texture_is_none

\* C9: decoding a file and encoding the decoded model again writes, for every
\* face, the same flags, dmask, distant, next, group and reserved bytes as the
\* original file, and the same vertex hide and bone hidden values.
C9_LegacyFieldsRoundTrip ==
    (df_pc = "exported" /\ df_out.kind = "3df" /\ ~df_out.raised)
        => /\ Len(df_out.faces) = Len(df_file.faces)
           /\ \A i \in 1..Len(df_out.faces) :
                 /\ df_out.faces[i].flags = df_file.faces[i].flags
                 /\ df_out.faces[i].dmask = df_file.faces[i].dmask
                 /\ df_out.faces[i].distant = df_file.faces[i].distant
                 /\ df_out.faces[i].next = df_file.faces[i].next
                 /\ df_out.faces[i].group = df_file.faces[i].group
                 /\ df_out.faces[i].reserv = df_file.faces[i].reserv
           /\ \A i \in 1..Len(df_out.hide) : df_out.hide[i] = df_file.vertices[i].hide
           /\ \A i \in DOMAIN df_file.bones :
                 i \in DOMAIN df_out.hidden /\ df_out.hidden[i] = df_file.bones[i].hidden

\* the two corner orders: as stored, and reversed
CornerOrders == {<<1, 2, 3>>, <<3, 2, 1>>}

\* corner c of every decoded face carries the index, the U, the V and the
\* (u, v) pair of one and the same corner of the file's face, under one order
DecodeKeepsCorners ==
    LET th == df_result.texture_height
        nv == df_result.header.vertex_count
    IN  \A i \in 1..Len(df_result.faces) : \E o \in CornerOrders : \A c \in 1..3 :
            LET f == df_file.faces[i]
                g == df_result.faces[i]
            IN  /\ g.v[c] \in {f.v[o[c]], Clip(f.v[o[c]], 0, nv - 1)}
                /\ g.u_tex[c] \in {f.u_tex[o[c]], Clip(f.u_tex[o[c]], 0, 255)}
                /\ g.v_tex[c] \in {f.v_tex[o[c]], Clip(f.v_tex[o[c]], 0, Max2(th - 1, 0))}
                /\ df_result.uvs[i][c] = DecodeUv(f.u_tex[o[c]], f.v_tex[o[c]], th)

\* corner c of every encoded face carries the index and the encoded U and V
\* of one and the same loop of the mesh face, under one order; an encoder
\* that writes no UVs writes zeros
EncodeKeepsCorners ==
    \A i \in 1..Len(df_out.faces) : \E o \in CornerOrders : \A c \in 1..3 :
        LET g == df_out.faces[i]
            uv == df_obj.uvs[i][o[c]]
        IN  /\ g.v[c] = df_obj.loops[i][o[c]]
            /\ df_out.with_uvs =>
                  /\ g.u_tex[c] = EncodeU(uv.u, df_out.flip_u)
                  /\ g.v_tex[c] = EncodeV(uv.v, df_out.flip_v, df_out.texture_height)
            /\ ~df_out.with_uvs => (g.u_tex[c] = 0 /\ g.v_tex[c] = 0)

\* C10: in the decode path (parse_3df_faces) and in the encode paths
\* (gather_mesh_data, gather_3dn_data) a face's vertex-index triple is
\* reversed if and only if its U triple and its V triple are reversed too:
\* corner k of the index triple keeps the UV pair that belonged to it.
C10_FlipIsSymmetric ==
    /\ (df_pc \in {"parsed", "imported", "exported"}) => DecodeKeepsCorners
    /\ (df_pc = "exported" /\ ~df_out.raised) => EncodeKeepsCorners

\* a textured export with the flip on, of a face whose three corners differ
\* in index, U and V: all three triples come out reversed
C10_Witness ==
    /\ df_pc = "exported"
    /\ df_out.kind = "3df"
    /\ ~df_out.raised
    /\ df_out.with_uvs
    /\ df_out.flip_handedness
    /\ df_obj.loops[1] = <<2, 1, 0>>
    /\ df_out.faces[1].v = <<0, 1, 2>>
    /\ df_out.faces[1].u_tex = <<0, 128, 255>>
    /\ df_out.faces[1].v_tex = <<0, 1, 2>>
    /\ df_file.faces[1].u_tex = <<0, 128, 255>>

\* corner c of every decoded face carries what corner o[c] of the file's face
\* holds: the index (as stored or repaired), and the decoded (u, v) pair
DecodedInOrder(o) ==
    LET th == df_result.texture_height
        nv == df_result.header.vertex_count
    IN  \A i \in 1..Len(df_result.faces) : \A c \in 1..3 :
            LET f == df_file.faces[i]
                g == df_result.faces[i]
            IN  /\ g.v[c] \in {f.v[o[c]], Clip(f.v[o[c]], 0, nv - 1)}
                /\ df_result.uvs[i][c] = DecodeUv(f.u_tex[o[c]], f.v_tex[o[c]], th)

\* C11: parse_3df reverses winding and UV order exactly when its
\* flip_handedness argument is true; with flip_handedness=False the returned
\* face vertex indices and UV triples are in on-disk order, for validate=True
\* and for validate=False alike.
C11_FlipObeysFlag ==
    (df_pc \in {"parsed", "imported", "exported"})
        => DecodedInOrder(IF df_opts.flip_handedness THEN <<3, 2, 1>> ELSE <<1, 2, 3>>)

(*--- any small set of centroids ---*)
MaxGroups == 3
MaxY == 1
\* centroids left of, on and right of the centre plane; two groups may share one
GridPoints == {<<x, y, 0>> : x \in (-1)..1, y \in 0..MaxY}

MstAnyInit ==
    \E n \in 1..MaxGroups :
       \E centroids \in [0..(n - 1) -> GridPoints] :
          /\ ExactTies(centroids)
          /\ \/ mst = MstInput(centroids, None)
             \/ \E f \in (-1)..(n - 1), last \in BOOLEAN :
                   mst = MstInput(centroids, NamesWithFloor(n, f, last))

\* the node reached from i by following parents k times (-1 past the root)
RECURSIVE Ancestor(_, _, _)
Ancestor(parents, i, k) ==
    IF k = 0 \/ i = -1 THEN i ELSE Ancestor(parents, parents[i], k - 1)

\* the group the claim names as root: the first one whose lower-cased name
\* holds the letters f, l, o, o, r in a row, else group 0
NamedRoot(names) ==
    LET holds(i) == \E s \in 1..(Len(names[i]) - 4) :
                       \A d \in 0..4 :
                          LET ch == names[i][s + d]
                          IN  (IF ch >= 65 /\ ch <= 90 THEN ch + 32 ELSE ch)
                                 = <<102, 108, 111, 111, 114>>[d + 1]
    IN  IF \E i \in DOMAIN names : holds(i)
           THEN CHOOSE i \in DOMAIN names : holds(i) /\ \A j \in DOMAIN names : holds(j) => i <= j
        ELSE 0

\* C12: for n >= 1 centroids infer_hierarchy_mst returns a parent array of
\* length n in which exactly one entry is -1 (the root: the first group whose
\* name contains "floor" case-insensitively, else index 0), every other entry
\* is a valid index, the parent graph is acyclic and every node reaches the
\* root by following parents.
C12_SingleRootedTree ==
    mst.pc = "done" =>
        LET n == Cardinality(DOMAIN mst.centroids)
            root == NamedRoot(mst.names)
        IN  /\ DOMAIN mst.parents = 0..(n - 1)
            /\ {i \in 0..(n - 1) : mst.parents[i] = -1} = {root}
            /\ \A i \in 0..(n - 1) : mst.parents[i] \in (-1)..(n - 1)
            /\ \A i \in 0..(n - 1) : \E k \in 0..(n - 1) : Ancestor(mst.parents, i, k) = root
            /\ \A i \in 0..(n - 1) : \A k \in 1..n : Ancestor(mst.parents, i, k) # i

\* three groups, two of them on one spot, the last one named floor: the
\* tree hangs from the last
C12_Witness ==
    /\ mst.pc = "done"
    /\ Cardinality(DOMAIN mst.centroids) = 3
    /\ mst.centroids[0] = mst.centroids[1]
    /\ mst.names # None
    /\ NamedRoot(mst.names) = 2
    /\ mst.parents[2] = -1
    /\ mst.parents[0] = 2
    /\ mst.parents[1] = 0

\* the warnings about vertex owners
OwnerWarnings == {"vertex_owner_clamped", "vertex_owner_no_bones"}

\* an owner the validator accepts as it is
OwnerValid(owner, nbones) == IF nbones > 0 THEN owner < nbones ELSE owner = 0

\* C13: after validate_3df_vertices returns, every vertex owner is
\* < bone_count when bone_count > 0 and equals 0 when bone_count == 0; owners
\* that were already valid are unchanged, each repaired owner is set to 0, and
\* a warning about owners is appended exactly when at least one owner was
\* repaired.
C13_OwnersValidAfterValidation ==
    (df_pc \in {"parsed", "imported", "exported"} /\ df_opts.validate) =>
        LET nbones == df_file.header.bone_count
            before == df_file.vertices
            after == df_result.vertices
            repaired == {i \in 1..Len(before) : ~OwnerValid(before[i].owner, nbones)}
        IN  /\ Len(after) = Len(before)
            /\ \A i \in 1..Len(after) :
                  /\ OwnerValid(after[i].owner, nbones)
                  /\ i \notin repaired => after[i].owner = before[i].owner
                  /\ i \in repaired => after[i].owner = 0
            /\ (\E k \in 1..Len(df_result.warnings) : df_result.warnings[k] \in OwnerWarnings)
                  <=> repaired # {}

\* one bone, and a vertex owned by bone 1: repaired to 0, with the warning
C13_Witness ==
    /\ df_pc = "parsed"
    /\ df_opts.validate
    /\ df_file.header.bone_count = 1
    /\ df_file.vertices[3].owner = 1
    /\ df_result.vertices[3].owner = 0
    /\ \E k \in 1..Len(df_result.warnings) : df_result.warnings[k] = "vertex_owner_clamped"

\* C14: after validate_3df_faces returns, every face vertex index is
\* < vertex_count, every U is <= 255 and every V is
\* <= max(texture_height - 1, 0); values already in range are unchanged,
\* out-of-range values are clamped to the nearest bound, and the call never
\* raises for out-of-range indices.
C14_FaceValuesInRangeAfterValidation ==
    (df_pc # "file" /\ df_opts.validate /\ df_file \in FaceFiles) =>
        LET th == TextureHeight(df_file.header.texture_size)
            nv == df_file.header.vertex_count
            o == IF df_opts.flip_handedness THEN <<3, 2, 1>> ELSE <<1, 2, 3>>
        IN  /\ ~df_result.raised
            /\ Len(df_result.faces) = Len(df_file.faces)
            /\ \A i \in 1..Len(df_result.faces) : \A c \in 1..3 :
                  LET f == df_file.faces[i]
                      g == df_result.faces[i]
                  IN  /\ g.v[c] = Clip(f.v[o[c]], 0, nv - 1)
                      /\ g.u_tex[c] = Clip(f.u_tex[o[c]], 0, 255)
                      /\ g.v_tex[c] = Clip(f.v_tex[o[c]], 0, Max2(th - 1, 0))

(***************************************************************************)
(* CAR decoder: the animation blocks, then the sounds and the table, read  *)
(* from the bytes that follow the texture                                  *)
(***************************************************************************)
\* one '<u4' item at byte offset pos (the model's values stay below 2^31)
U4At(bytes, pos) ==
    bytes[pos + 1] + 256 * bytes[pos + 2] + 65536 * bytes[pos + 3]
        + 16777216 * bytes[pos + 4]

\* one '<i4' item at byte offset pos
I4At(bytes, pos) ==
    bytes[pos + 1] + 256 * bytes[pos + 2] + 65536 * bytes[pos + 3]
        + 16777216 * (IF bytes[pos + 4] >= 128 THEN bytes[pos + 4] - 256
                      ELSE bytes[pos + 4])

\* one '<i2' item at byte offset pos
I2At(bytes, pos) ==
    LET u == bytes[pos + 1] + 256 * bytes[pos + 2]
    IN  IF u >= 32768 THEN u - 65536 ELSE u

\* f"Anim_{anim_idx}", as bytes
AnimPlaceholder(anim_idx) == <<65, 110, 105, 109, 95, 48 + anim_idx>>

\* parse_car_animations, from the pass for anim_idx on.  st holds the file
\* position, the animations appended and the warnings so far.  A read of one
\* item at the end of the file returns no item, and `[0]` raises IndexError.
RECURSIVE ParseAnimationsFrom(_, _, _, _)
ParseAnimationsFrom(bytes, header, anim_idx, st) ==
    IF anim_idx >= header.ani_count THEN st
    ELSE IF Len(bytes) - st.pos < 32 + 4 + 4 THEN [st EXCEPT !.raised = TRUE]
    ELSE LET vcount == header.vertex_count
             decoded == SplitNul(DecodeAscii(SubSeq(bytes, st.pos + 1, st.pos + 32)))
             ani_name == IF decoded = <<>> THEN AnimPlaceholder(anim_idx) ELSE decoded
             ani_kps == U4At(bytes, st.pos + 32)
             frames_count == U4At(bytes, st.pos + 36)
             data_size == frames_count * vcount * 6
             expected_count == data_size \div 2
             start == st.pos + 40
             got == ReadCount(Len(bytes), start, 2, expected_count)
             raw_data == [i \in 1..got |-> I2At(bytes, start + 2 * (i - 1))]
             positions ==
                 [f \in 1..frames_count |-> [v \in 1..vcount |-> [c \in 1..3 |->
                     F32Reduce([m |-> raw_data[((f - 1) * vcount + (v - 1)) * 3 + c],
                                k |-> 4])]]]
             after == ReadEnd(Len(bytes), start, 2, expected_count)
         IN  IF got # expected_count
                THEN ParseAnimationsFrom(bytes, header, anim_idx + 1,
                        [st EXCEPT !.pos = after,
                                   !.warnings = Append(@, <<"anim_truncated", ani_name>>)])
             ELSE ParseAnimationsFrom(bytes, header, anim_idx + 1,
                        [st EXCEPT !.pos = after,
                                   !.animations = Append(@,
                                       [name |-> ani_name, kps |-> ani_kps,
                                        frames_count |-> frames_count,
                                        positions |-> positions])])

\* parse_car_animations(file, header, context), the file at offset pos
parse_car_animations(bytes, pos, header, warnings) ==
    ParseAnimationsFrom(bytes, header, 0,
        [raised |-> FALSE, pos |-> pos, animations |-> <<>>, warnings |-> warnings])

\* the sound blocks np.fromfile finds from pos on, n at most: a name, a
\* length, and as many of the length // 2 samples as the file holds
RECURSIVE SoundBlocksAt(_, _, _)
SoundBlocksAt(bytes, pos, n) ==
    IF n = 0 \/ Len(bytes) - pos < 32 + 4 THEN [blocks |-> <<>>, pos |-> pos]
    ELSE LET length == U4At(bytes, pos + 32)
             got == ReadCount(Len(bytes), pos + 36, 2, length \div 2)
             rest == SoundBlocksAt(bytes, ReadEnd(Len(bytes), pos + 36, 2, length \div 2),
                                   n - 1)
         IN  [blocks |-> <<[name |-> SubSeq(bytes, pos + 1, pos + 32),
                            length |-> length,
                            data |-> [i \in 1..got |-> I2At(bytes, pos + 36 + 2 * (i - 1))]]>>
                           \o rest.blocks,
              pos |-> rest.pos]

\* parse_car from the animations on (lines 172-179); the warnings are pairs
\* of a kind and the name it is about
parse_car_tail(bytes, header, validate) ==
    LET an == parse_car_animations(bytes, 0, header, <<>>)
        sb == SoundBlocksAt(bytes, an.pos, header.sfx_count)
        nx == ReadCount(Len(bytes), sb.pos, 4, CROSS_REF_SIZE)
        sc == parse_car_sounds_and_crossref(
                 [sounds |-> sb.blocks,
                  xref |-> [i \in 1..nx |-> I4At(bytes, sb.pos + 4 * (i - 1))]],
                 header, <<>>, validate)
    IN  IF an.raised \/ sc.raised
            THEN [raised |-> TRUE, animations |-> <<>>, sounds |-> <<>>,
                  cross_ref |-> <<>>, warnings |-> <<>>]
        ELSE [raised |-> FALSE, animations |-> an.animations, sounds |-> sc.sounds,
              cross_ref |-> sc.cross_ref,
              warnings |-> an.warnings
                             \o [k \in 1..Len(sc.warnings) |-> <<sc.warnings[k], <<>>>>]]

(*--- inputs of the CAR decoder's last part ---*)
MaxAni == 2
MaxFrames == 2

\* n as little-endian bytes, two's complement
LeBytes(n, width) == [i \in 1..width |-> (n \div Pow2(8 * (i - 1))) % 256]

Pad32(name) == name \o [i \in 1..(32 - Len(name)) |-> 0]

\* the animation block number k of a file over one vertex: its header
\* declares `declared` frames, `stored` frames follow
AnimBlock(k, named, declared, stored) ==
    [name |-> IF named THEN <<65, 48 + k>> ELSE <<>>,
     kps |-> 10 + k, declared |-> declared, stored |-> stored]

AnimBytes(a) ==
    Pad32(a.name) \o LeBytes(a.kps, 4) \o LeBytes(a.declared, 4)
        \o ConcatAll([i \in 1..(3 * a.stored) |-> LeBytes(40 * i - 100, 2)])

SoundBytes(k) == Pad32(<<83, 48 + k>>) \o LeBytes(4, 4) \o LeBytes(k, 2) \o LeBytes(-k, 2)

\* the animations, the sounds and the table of a file; when `ends`, the file
\* stops after animation number `last`
TailBytes(anims, last, sfx, ends) ==
    ConcatAll([k \in 1..(IF ends THEN last ELSE Len(anims)) |-> AnimBytes(anims[k])])
        \o (IF ends THEN <<>>
            ELSE ConcatAll([k \in 1..sfx |-> SoundBytes(k)])
                    \o ConcatAll([i \in 1..CROSS_REF_SIZE |->
                                     LeBytes(IF i <= sfx THEN i - 1 ELSE -1, 4)]))

\* a file with ani animations of which number `malformed` (0: none) declares
\* one frame more than it stores; the last `cut` bytes are missing
CarTailInit ==
    /\ \E ani \in 1..MaxAni, sfx \in {0, 1}, stored \in 1..MaxFrames,
          named, ends \in BOOLEAN, cut \in {0, 3, 300} :
        \E malformed \in 0..ani :
          LET anims == [k \in 1..ani |->
                           AnimBlock(k, named \/ k # malformed,
                                     IF k = malformed THEN stored + 1 ELSE stored,
                                     stored)]
              whole == TailBytes(anims, malformed, sfx, ends)
          IN  /\ ends => (malformed # 0 /\ cut = 0)
              /\ malformed = 0 => named
              /\ car =
                   [pc |-> "tail", validate |-> FALSE, animations |-> <<>>,
                    sounds |-> <<>>, xref |-> <<>>, warnings |-> <<>>,
                    header |-> [ani_count |-> ani, sfx_count |-> sfx,
                                vertex_count |-> 1],
                    file |-> [bytes |-> SubSeq(whole, 1, Max2(Len(whole) - cut, 0)),
                              anims |-> anims, malformed |-> malformed,
                              ends |-> ends, cut |-> cut]]

\* parse_car, from the animations on
CarParseTail ==
    /\ car.pc = "tail"
    /\ LET res == parse_car_tail(car.file.bytes, car.header, car.validate)
       IN  car' = [car EXCEPT !.pc = IF res.raised THEN "error" ELSE "parsed",
                              !.animations = res.animations,
                              !.sounds = res.sounds,
                              !.xref = res.cross_ref,
                              !.warnings = res.warnings]
    /\ UNCHANGED carOthers

CarTailNext == CarParseTail

\* the name parse_car_animations gives block number k (anim_idx k - 1)
BlockName(a, k) == IF a.name = <<>> THEN AnimPlaceholder(k - 1) ELSE a.name

\* C15: when one animation block of a CAR file is malformed (its frame data
\* is shorter than frame_count * vertex_count * 3 int16 values), parse_car
\* still returns normally, the returned animation list holds every other
\* well-formed animation, the malformed one is absent, and the returned
\* warnings contain an entry identifying it by name or index; this holds also
\* when the header declares sfx_count > 0.
C15_MalformedAnimationIsolated ==
    (car.pc # "tail" /\ car.file.malformed # 0 /\ car.file.cut = 0) =>
        LET m == car.file.malformed
            others == SelectSeq([k \in 1..Len(car.file.anims) |-> k], LAMBDA k : k # m)
        IN  /\ car.pc = "parsed"
            /\ Len(car.animations) = Len(others)
            /\ \A j \in 1..Len(others) :
                  /\ car.animations[j].name = BlockName(car.file.anims[others[j]], others[j])
                  /\ car.animations[j].frames_count = car.file.anims[others[j]].stored
            /\ \E k \in 1..Len(car.warnings) :
                  car.warnings[k] = <<"anim_truncated", BlockName(car.file.anims[m], m)>>

(***************************************************************************)
(* CAR exporter: gather_car_animations and export_car                      *)
(*                                                                         *)
(* A strip is [name, has_action, kps, sound, samples]; sound is None or   *)
(* the name of a sound (names are byte strings); samples are the evaluated meshes of the strip, one per      *)
(* sample of bake_range, each the vertex count found and the transformed   *)
(* coordinates of its vertices as binary fractions [m, k] (m / 2^k).       *)
(***************************************************************************)
\* .astype(np.int16) of a value outside the int16 range, taken modulo 2^16
QuantizeNoClip(x) ==
    LET num == 16 * x.m
        whole == IF num >= 0 THEN num \div Pow2(x.k) ELSE -((-num) \div Pow2(x.k))
    IN  ((whole + 32768) % 65536) - 32768

\* np.clip(transformed_co * 16.0, -32768, 32767).astype(np.int16); the cast
\* drops the fraction
Quantize(x) ==
    LET num == 16 * x.m
        lo == (-32768) * Pow2(x.k)
        hi == 32767 * Pow2(x.k)
        clipped == IF num < lo THEN lo ELSE IF num > hi THEN hi ELSE num
    IN  IF clipped >= 0 THEN clipped \div Pow2(x.k) ELSE -((-clipped) \div Pow2(x.k))

\* bake_range, were the frames baked before the mismatch returned
bake_range_partial(samples, vertex_count) ==
    LET bad == {i \in 1..Len(samples) : samples[i].count # vertex_count}
        n == IF bad = {} THEN Len(samples)
             ELSE (CHOOSE i \in bad : \A j \in bad : i <= j) - 1
    IN  [i \in 1..n |-> [v \in 1..samples[i].count |-> [c \in 1..3 |->
            Quantize(samples[i].co[v][c])]]]

\* bake_range(name, start, end, kps, sound_ptr): frames_data, or None when a
\* sample has another vertex count than the base mesh
bake_range(samples, vertex_count) ==
    IF \E i \in 1..Len(samples) : samples[i].count # vertex_count THEN None
    ELSE [i \in 1..Len(samples) |-> [v \in 1..samples[i].count |-> [c \in 1..3 |->
            Quantize(samples[i].co[v][c])]]]

\* gather_car_animations(obj, export_matrix, vertex_count): the loop over the
\* strips in the order they are processed; `if not action: continue`,
\* `if frames:`
gather_car_animations(strips, vertex_count) ==
    LET appended == SelectSeq(strips,
                        LAMBDA strip : strip.has_action
                                          /\ bake_range(strip.samples, vertex_count) # <<>>)
    IN  [a \in 1..Len(appended) |->
            [name |-> appended[a].name, kps |-> appended[a].kps,
             frames |-> bake_range(appended[a].samples, vertex_count),
             sound_ptr |-> appended[a].sound]]

\* the body of `for i, anim in enumerate(anims)` applied to the animations
\* lo..hi (1-based) in order, the range split in halves; st = [sounds_map,
\* sound_list, cross_ref], cross_ref indexed from 1.  converts: the sounds
\* convert_sound_to_22khz_mono returns data for; dedup: `if snd.name not in
\* sounds_map` is tested
RECURSIVE SoundLoop(_, _, _, _, _, _)
SoundLoop(anims, lo, hi, converts, st, dedup) ==
    IF lo > hi THEN st
    ELSE IF lo = hi
        THEN LET snd == anims[lo].sound_ptr
                 known == dedup /\ snd \in DOMAIN st.sounds_map
                 idx == IF known THEN st.sounds_map[snd]
                        ELSE IF snd \in converts THEN Len(st.sound_list) ELSE -1
             IN  IF snd = None THEN st
                 ELSE [sounds_map |-> IF known \/ ~dedup THEN st.sounds_map
                                      ELSE [n \in DOMAIN st.sounds_map \cup {snd} |->
                                              IF n = snd THEN idx ELSE st.sounds_map[n]],
                       sound_list |-> IF ~known /\ snd \in converts
                                         THEN Append(st.sound_list, snd)
                                      ELSE st.sound_list,
                       cross_ref |-> IF lo <= CROSS_REF_SIZE
                                        THEN [st.cross_ref EXCEPT ![lo] = idx]
                                     ELSE st.cross_ref]
    ELSE LET mid == (lo + hi) \div 2
             first_half == SoundLoop(anims, lo, mid, converts, st, dedup)
         IN  \* the test is never true: it has TLC evaluate the first half
             \* before it enters the second
             IF DOMAIN first_half = {} THEN first_half
             ELSE SoundLoop(anims, mid + 1, hi, converts, first_half, dedup)

\* the sound loop, were every linked sound converted and appended anew
ProcessSoundsNoDedup(anims, i, converts, st) ==
    SoundLoop(anims, i + 1, Min2(Len(anims), CROSS_REF_SIZE), converts, st, FALSE)

\* the sound loop, were there no `if i >= 64: break`
ProcessSoundsPastTable(anims, i, converts, st) ==
    SoundLoop(anims, i + 1, Len(anims), converts, st, TRUE)

\* the sound loop of export_car from animation i (0-based) on, up to the
\* `if i >= 64: break`
ProcessSounds(anims, i, converts, st) ==
    SoundLoop(anims, i + 1, Min2(Len(anims), CROSS_REF_SIZE), converts, st, TRUE)

\* struct.pack('<I', kps) raises struct.error outside 0..2^32-1
PacksAsU4(kps) == kps >= 0

\* the animation blocks the loop at lines 380-390 writes before it stops
BlocksWritten(anims) ==
    LET unpackable == {a \in 1..Len(anims) : ~PacksAsU4(anims[a].kps)}
        n == IF unpackable = {} THEN Len(anims)
             ELSE (CHOOSE a \in unpackable : \A b \in unpackable : a <= b) - 1
    IN  [a \in 1..n |->
            [name |-> anims[a].name, kps |-> anims[a].kps,
             frames_count |-> Len(anims[a].frames), frames |-> anims[a].frames]]

\* export_car(filepath, obj, ...): steps 2 to 4.  `with open(filepath, 'wb')`
\* empties the target; the sections follow one write after the other.
\* io_error: the section whose write the system refuses ("none": no refusal)
export_car(scene, io_error) ==
    LET anims == gather_car_animations(scene.strips, scene.vertex_count)
        ps == ProcessSounds(anims, 0, scene.converts,
                            [sounds_map |-> <<>>, sound_list |-> <<>>,
                             cross_ref |-> [i \in 1..CROSS_REF_SIZE |-> -1]])
        header == [ani_count |-> Len(anims), sfx_count |-> Len(ps.sound_list),
                   vertex_count |-> scene.vertex_count]
        blocks == BlocksWritten(anims)
        anims_done == Len(blocks) = Len(anims)
        sounds_done == anims_done /\ ~(io_error = "sounds" /\ ps.sound_list # <<>>)
        table_done == sounds_done /\ io_error # "cross_ref"
    IN  [anims |-> anims,
         raised |-> ~table_done,
         disk |-> [header |-> header,
                   animations |-> blocks,
                   sounds |-> IF sounds_done THEN ps.sound_list ELSE <<>>,
                   cross_ref |-> IF table_done THEN ps.cross_ref ELSE <<>>,
                   complete |-> table_done]]

\* export_3df(filepath, obj, ...): the writes at lines 134-141; the sections
\* written before the system refuses one
export_3df_write(io_error) ==
    LET order == <<"header", "faces", "vertices", "bones", "texture">>
        stop == IF \E i \in 1..Len(order) : order[i] = io_error
                   THEN (CHOOSE i \in 1..Len(order) : order[i] = io_error) - 1
                ELSE Len(order)
    IN  [raised |-> stop < Len(order),
         disk |-> [kind |-> "3df", sections |-> SubSeq(order, 1, stop),
                   complete |-> stop = Len(order)]]

(*--- inputs of the CAR exporter ---*)
MaxStrips == 3
MaxSounds == 2

StripKinds == {"ok", "mismatch_first", "mismatch_later", "no_action"}

\* 0, 1.5, -1/32, the ends of the int16 range in sixteenths and a 32nd and a
\* 16th beyond them, and values far outside
Poses ==
    {[m |-> 0, k |-> 0], [m |-> 3, k |-> 1], [m |-> -1, k |-> 5],
     [m |-> 32767, k |-> 4], [m |-> 65535, k |-> 5], [m |-> 2048, k |-> 0],
     [m |-> 32769, k |-> 4], [m |-> -2048, k |-> 0], [m |-> -65535, k |-> 5],
     [m |-> -65537, k |-> 5], [m |-> -32769, k |-> 4],
     [m |-> 3000, k |-> 0], [m |-> 4096, k |-> 0], [m |-> -100000, k |-> 0]}

SoundName(s) == IF s = 0 THEN None ELSE <<83, 48 + s>>

\* strip number k: two samples of a one-vertex mesh, at pose and its negative
Strip(k, kind, kps, sound, pose) ==
    LET co == <<pose, [pose EXCEPT !.m = -pose.m], [m |-> k, k |-> 4]>>
        sample(count) == [count |-> count, co |-> [v \in 1..count |-> co]]
    IN  [name |-> <<65, 48 + (k \div 10), 48 + (k % 10)>>,
         has_action |-> kind # "no_action",
         kps |-> kps,
         sound |-> SoundName(sound),
         samples |-> <<sample(IF kind = "mismatch_first" THEN 2 ELSE 1),
                       sample(IF kind = "mismatch_later" THEN 2 ELSE 1)>>]

\* the file a previous export left at the target path
PreviousFile ==
    [kind |-> "car", refused |-> "none",
     header |-> [ani_count |-> 0, sfx_count |-> 0, vertex_count |-> 1],
     animations |-> <<>>, sounds |-> <<>>,
     cross_ref |-> [i \in 1..CROSS_REF_SIZE |-> -1], complete |-> TRUE]

Scene(strips, converts) ==
    [strips |-> strips, vertex_count |-> 1,
     converts |-> {SoundName(s) : s \in converts}]

XcInit ==
    /\ xc_pc = "scene"
    /\ xc_anims = <<>>
    /\ xc_disk = PreviousFile
    /\ \/ \* some strips without an action or with a changing vertex count
          \E n \in 1..MaxStrips, pattern \in 0..2 : \E kinds \in [1..n -> StripKinds] :
             xc_scene = Scene([k \in 1..n |->
                                  Strip(k, kinds[k], 10 + k,
                                        IF pattern = 0 THEN 0
                                        ELSE IF pattern = 1 THEN 1
                                        ELSE ((k - 1) % MaxSounds) + 1,
                                        [m |-> 3, k |-> 1])],
                              1..MaxSounds)
       \/ \* sounds shared or not, sounds that do not convert, a negative kps
          \E n \in 1..MaxStrips, converts \in SUBSET (1..MaxSounds) :
             \E sounds \in [1..n -> 0..MaxSounds], negative \in 0..n :
                xc_scene = Scene([k \in 1..n |->
                                     Strip(k, "ok", IF k = negative THEN -1 ELSE 10 + k,
                                           sounds[k], [m |-> 3, k |-> 1])],
                                 converts)
       \/ \* one strip, the coordinates vary
          \E pose \in Poses :
             xc_scene = Scene(<<Strip(1, "ok", 20, 0, pose)>>, {})
       \/ \* as many strips as the table has entries, and more
          \E n \in CROSS_REF_SIZE..(CROSS_REF_SIZE + 2), period \in 0..MaxSounds,
             converts \in SUBSET (1..(MaxSounds + 1)) :
             xc_scene = Scene([k \in 1..n |->
                                  Strip(k, "ok", 20,
                                        IF k > CROSS_REF_SIZE THEN MaxSounds + 1
                                        ELSE IF period = 0 THEN 0
                                        ELSE ((k - 1) % period) + 1,
                                        [m |-> 3, k |-> 1])],
                              converts)

\* export_car, as the export operator calls it
XcExportCar ==
    /\ xc_pc = "scene"
    /\ \E io_error \in {"none", "sounds", "cross_ref"} :
          LET res == export_car(xc_scene, io_error)
          IN  /\ xc_anims' = res.anims
              /\ xc_disk' = [kind |-> "car", refused |-> io_error] @@ res.disk
              /\ xc_pc' = IF res.raised THEN "failed" ELSE "written"
    /\ UNCHANGED <<xc_scene, xcOthers>>

\* export_3df's writes to the same path
XcExport3df ==
    /\ xc_pc = "scene"
    /\ \E io_error \in {"none", "faces", "texture"} :
          LET res == export_3df_write(io_error)
          IN  /\ xc_disk' = [refused |-> io_error] @@ res.disk
              /\ xc_pc' = IF res.raised THEN "failed" ELSE "written"
    /\ UNCHANGED <<xc_scene, xc_anims, xcOthers>>

XcNext == XcExportCar \/ XcExport3df

\* a strip one of whose samples has another vertex count than the base mesh
Mismatch(strip) ==
    \E i \in 1..Len(strip.samples) : strip.samples[i].count # xc_scene.vertex_count

\* C16: if, while baking animation A, any sample's evaluated vertex count
\* differs from the base mesh's vertex count, A contributes no frames at all
\* to the export, every other animation is baked and written as if A were
\* absent, and the header ani_count equals the number of animation blocks
\* written.
C16_MismatchAbortsOneAnimation ==
    (xc_pc \in {"written", "failed"} /\ xc_disk.kind = "car") =>
        LET others == SelectSeq(xc_scene.strips,
                                LAMBDA s : s.has_action /\ ~Mismatch(s))
        IN  /\ Len(xc_anims) = Len(others)
            /\ \A j \in 1..Len(others) :
                  /\ xc_anims[j].name = others[j].name
                  /\ xc_anims[j].kps = others[j].kps
                  /\ Len(xc_anims[j].frames) = Len(others[j].samples)
            /\ xc_pc = "written" =>
                  /\ xc_disk.header.ani_count = Len(xc_disk.animations)
                  /\ Len(xc_disk.animations) = Len(others)
                  /\ \A j \in 1..Len(others) :
                        /\ xc_disk.animations[j].name = others[j].name
                        /\ xc_disk.animations[j].frames_count = Len(others[j].samples)
                        /\ xc_disk.animations[j].frames = xc_anims[j].frames

\* three strips, the second one changing its vertex count at its second
\* sample: two blocks written, the first and the third
C16_Witness ==
    /\ xc_pc = "written"
    /\ xc_disk.kind = "car"
    /\ Len(xc_scene.strips) = 3
    /\ ~Mismatch(xc_scene.strips[1])
    /\ xc_scene.strips[2].samples[1].count = 1
    /\ xc_scene.strips[2].samples[2].count = 2
    /\ xc_scene.strips[3].has_action /\ ~Mismatch(xc_scene.strips[3])
    /\ xc_scene.strips[1].has_action
    /\ xc_disk.header.ani_count = 2
    /\ xc_disk.animations[2].name = xc_scene.strips[3].name

\* the animation block export_car writes, as bytes (lines 381-390)
AnimBlockBytes(block) ==
    Pad32(block.name) \o LeBytes(block.kps, 4) \o LeBytes(block.frames_count, 4)
        \o ConcatAll([f \in 1..Len(block.frames) |->
              ConcatAll([v \in 1..Len(block.frames[f]) |->
                 ConcatAll([c \in 1..3 |-> LeBytes(block.frames[f][v][c], 2)])])])

\* q is x * 16 clamped to the int16 range, without its fraction
ClampedSixteenths(x, q) ==
    LET num == 16 * x.m
        p == Pow2(x.k)
    IN  /\ q \in (-32768)..32767
        /\ num >= 32767 * p => q = 32767
        /\ num <= (-32768) * p => q = -32768
        /\ (num >= 0 /\ num < 32767 * p) => (q * p <= num /\ num < (q + 1) * p)
        /\ (num < 0 /\ num > (-32768) * p) => ((q - 1) * p < num /\ num <= q * p)

\* C17: every baked coordinate written to an animation frame equals
\* position * 16 clamped to [-32768, 32767] and stored as a signed 16-bit
\* integer; no position makes the stored value wrap around (above 2047.9375
\* it is 32767, below -2048 it is -32768), and decoding divides the stored
\* integer by 16.
C17_QuantizationSaturates ==
    (xc_pc = "written" /\ xc_disk.kind = "car") =>
        \A j \in 1..Len(xc_disk.animations) :
            LET block == xc_disk.animations[j]
                strip == CHOOSE s \in {xc_scene.strips[i] : i \in 1..Len(xc_scene.strips)} :
                            s.name = block.name
                back == parse_car_animations(AnimBlockBytes(block), 0,
                            [ani_count |-> 1, vertex_count |-> xc_scene.vertex_count], <<>>)
            IN  \A f \in 1..Len(block.frames) : \A c \in 1..3 :
                    /\ ClampedSixteenths(strip.samples[f].co[1][c], block.frames[f][1][c])
                    /\ j = 1 =>
                          /\ ~back.raised /\ Len(back.animations) = 1
                          /\ back.animations[1].positions[f][1][c].m
                                 * Pow2(4 - back.animations[1].positions[f][1][c].k)
                               = block.frames[f][1][c]

\* 2048.0625 and its negative: stored as 32767 and -32768
C17_Witness ==
    /\ xc_pc = "written"
    /\ xc_disk.kind = "car"
    /\ Len(xc_scene.strips) = 1
    /\ xc_scene.strips[1].samples[1].co[1][1] = [m |-> 32769, k |-> 4]
    /\ xc_disk.animations[1].frames[1][1][1] = 32767
    /\ xc_disk.animations[1].frames[1][1][2] = -32768

\* the animations that have a slot in the table
Slots == 1..Min2(Len(xc_anims), CROSS_REF_SIZE)

\* the first slot whose animation is linked to sound snd
FirstUse(snd) == CHOOSE i \in Slots :
                    /\ xc_anims[i].sound_ptr = snd
                    /\ \A j \in Slots : xc_anims[j].sound_ptr = snd => i <= j

\* C18: for any sequence of animations processed by export_car, two
\* animations (among the first 64) whose linked sounds have the same name
\* receive the same cross-reference value, the written sound list holds at
\* most one block per distinct sound name, and sound indices are assigned
\* 0, 1, 2, ... in order of first use.
C18_SoundsDeduplicated ==
    (xc_pc = "written" /\ xc_disk.kind = "car") =>
        LET linked == {i \in Slots : xc_anims[i].sound_ptr # None}
            bundled == {i \in linked : xc_anims[i].sound_ptr \in xc_scene.converts}
            \* the sounds, of those that convert, first used before slot i's sound
            earlier(i) == {xc_anims[j].sound_ptr : j \in
                             {j \in bundled : FirstUse(xc_anims[j].sound_ptr)
                                                 < FirstUse(xc_anims[i].sound_ptr)}}
        IN  /\ \A i, j \in linked :
                  xc_anims[i].sound_ptr = xc_anims[j].sound_ptr
                     => xc_disk.cross_ref[i] = xc_disk.cross_ref[j]
            /\ \A a, b \in 1..Len(xc_disk.sounds) :
                  xc_disk.sounds[a] = xc_disk.sounds[b] => a = b
            /\ xc_disk.header.sfx_count = Len(xc_disk.sounds)
            /\ \A i \in bundled :
                  /\ xc_disk.cross_ref[i] = Cardinality(earlier(i))
                  /\ xc_disk.sounds[xc_disk.cross_ref[i] + 1] = xc_anims[i].sound_ptr

\* three animations linked to S1, S2, S1: table 0, 1, 0 and two sound blocks
C18_Witness ==
    /\ xc_pc = "written"
    /\ xc_disk.kind = "car"
    /\ Len(xc_anims) = 3
    /\ xc_anims[1].sound_ptr = <<83, 49>>
    /\ xc_anims[2].sound_ptr = <<83, 50>>
    /\ xc_anims[3].sound_ptr = <<83, 49>>
    /\ xc_disk.cross_ref[1] = 0 /\ xc_disk.cross_ref[2] = 1 /\ xc_disk.cross_ref[3] = 0
    /\ Len(xc_disk.sounds) = 2

\* C19: exporting more than 64 animations completes without a fatal error,
\* writes a cross-reference table of exactly 64 entries, still writes every
\* animation block, and bundles no sound for animations at index >= 64;
\* every one of the 64 written entries is -1 or an index < the sfx_count
\* written in the header.
C19_TableTruncatedAt64 ==
    (xc_pc \in {"written", "failed"} /\ xc_disk.kind = "car"
        /\ Len(xc_anims) > CROSS_REF_SIZE /\ xc_disk.refused = "none") =>
        /\ xc_pc = "written"
        /\ DOMAIN xc_disk.cross_ref = 1..CROSS_REF_SIZE
        /\ Len(xc_disk.animations) = Len(xc_anims)
        /\ xc_disk.header.ani_count = Len(xc_anims)
        /\ \A a \in 1..Len(xc_disk.sounds) :
              \E i \in 1..CROSS_REF_SIZE : xc_anims[i].sound_ptr = xc_disk.sounds[a]
        /\ \A i \in 1..CROSS_REF_SIZE :
              xc_disk.cross_ref[i] \in (-1)..(xc_disk.header.sfx_count - 1)

\* 66 animations, the last two linked to a sound of their own that converts:
\* 66 blocks, 64 entries, and that sound is not among the blocks
C19_Witness ==
    /\ xc_pc = "written"
    /\ xc_disk.kind = "car"
    /\ Len(xc_anims) = CROSS_REF_SIZE + 2
    /\ xc_anims[CROSS_REF_SIZE + 1].sound_ptr \in xc_scene.converts
    /\ Len(xc_disk.animations) = CROSS_REF_SIZE + 2
    /\ DOMAIN xc_disk.cross_ref = 1..CROSS_REF_SIZE
    /\ xc_disk.cross_ref[CROSS_REF_SIZE] = 1
    /\ Len(xc_disk.sounds) = 2

\* C20: if export_3df or export_car fails after it has started writing the
\* target file, the target path is not left holding a partial file: either
\* the previous contents are intact or a complete file is in place.
C20_NoTruncatedOutput ==
    xc_pc = "failed" => (xc_disk = PreviousFile \/ xc_disk.complete)

(***************************************************************************)
(* The timing resampler: rescale_standard_action (utils/animation.py).     *)
(* Times are rationals [n, d] in lowest terms, d > 0.                      *)
(***************************************************************************)
RECURSIVE Gcd(_, _)
Gcd(a, b) == IF b = 0 THEN a ELSE Gcd(b, a % b)

Rat(n, d) ==
    LET g == Gcd(Abs(n), d)
    IN  [n |-> n \div g, d |-> d \div g]

RatAdd(a, b) == Rat(a.n * b.d + b.n * a.d, a.d * b.d)
RatSub(a, b) == Rat(a.n * b.d - b.n * a.d, a.d * b.d)
RatMulInt(i, a) == Rat(i * a.n, a.d)
RatLess(a, b) == a.n * b.d < b.n * a.d

\* unique_frames: kp.co[0] of every keyframe of every channel
KeyTimes(fcurves) ==
    UNION {{fcurves[c][k].co : k \in 1..Len(fcurves[c])} : c \in 1..Len(fcurves)}

\* the mapping, were a time scaled by the step instead of counted
FrameMapProportional(unique, frame_step, old_frame) ==
    LET start_frame == CHOOSE t \in unique : \A u \in unique : ~RatLess(u, t)
        span == RatSub(old_frame, start_frame)
    IN  RatAdd(start_frame, Rat(span.n * frame_step.n, span.d * frame_step.d))

\* frame_map[old_frame]: start_frame + i * frame_step, i the place of
\* old_frame in sorted(unique_frames)
FrameMap(unique, frame_step, old_frame) ==
    LET start_frame == CHOOSE t \in unique : \A u \in unique : ~RatLess(u, t)
        i == Cardinality({u \in unique : RatLess(u, old_frame)})
    IN  RatAdd(start_frame, RatMulInt(i, frame_step))

\* rescale_standard_action(action, kps, scene_fps): the channels and the
\* custom property it leaves
rescale_standard_action(action, kps, scene_fps) ==
    IF action.fcurves = <<>> THEN action
    ELSE LET kps1 == IF kps <= 0 THEN 1 ELSE kps
             frame_step == Rat(scene_fps, kps1)
             unique == KeyTimes(action.fcurves)
             moved(kp) ==
                LET new_time == FrameMap(unique, frame_step, kp.co)
                IN  [co |-> new_time,
                     handle_left |-> RatAdd(new_time, RatSub(kp.handle_left, kp.co)),
                     handle_right |-> RatAdd(new_time, RatSub(kp.handle_right, kp.co))]
         IN  IF unique = {} THEN action
             ELSE [fcurves |-> [c \in 1..Len(action.fcurves) |->
                                  [k \in 1..Len(action.fcurves[c]) |->
                                      moved(action.fcurves[c][k])]],
                   carnivores_kps |-> kps1]

(*--- inputs of the resampler ---*)
MaxCurves == 2
MaxKeys == 2

\* 0, 1, 3/2, 4 and -2
RsTimes == {Rat(0, 1), Rat(1, 1), Rat(3, 2), Rat(4, 1), Rat(-2, 1)}

\* (kps, scene_fps)
RsRates == {<<0, 24>>, <<1, 1>>, <<7, 24>>, <<10, 30>>, <<30, 24>>}

\* (left, right) handle offsets
RsHandles == {<<Rat(-1, 1), Rat(1, 1)>>, <<Rat(-1, 2), Rat(1, 3)>>}

\* a channel keeps its keyframes in ascending time order
RsCurves(offsets) ==
    {[k \in 1..Cardinality(times) |->
        LET t == CHOOSE x \in times :
                    Cardinality({u \in times : RatLess(u, x)}) = k - 1
        IN  [co |-> t, handle_left |-> RatAdd(t, offsets[1]),
             handle_right |-> RatAdd(t, offsets[2])]] :
        times \in {s \in SUBSET RsTimes : Cardinality(s) <= MaxKeys}}

RsInit ==
    \E rate \in RsRates, n \in 0..MaxCurves, offsets \in RsHandles :
       \E curves \in [1..n -> RsCurves(offsets)] :
          rs = [pc |-> "action", calls |-> 0, prev |-> <<>>, prop |-> None,
                kps |-> rate[1], fps |-> rate[2], action |-> curves]

\* a call of rescale_standard_action(action, kps, scene_fps)
RsRescale ==
    /\ rs.pc = "action"
    /\ rs.calls < 2
    /\ LET res == rescale_standard_action(
                      [fcurves |-> rs.action, carnivores_kps |-> rs.prop],
                      rs.kps, rs.fps)
       IN  rs' = [rs EXCEPT !.action = res.fcurves,
                            !.prop = res.carnivores_kps,
                            !.prev = rs.action,
                            !.calls = rs.calls + 1]
    /\ UNCHANGED rsOthers

RsNext == RsRescale

\* the place of time t among the sorted unique keyframe times before the call
RsPlace(t) == Cardinality({u \in KeyTimes(rs.prev) : RatLess(u, t)})

ModelNameSuffix == <<109, 115, 99, 58, 32, 35>>

\* str.endswith
EndsWith(str, suffix) ==
    /\ Len(str) >= Len(suffix)
    /\ SubSeq(str, Len(str) - Len(suffix) + 1, Len(str)) = suffix

\* np.char.rstrip(decoded, '\x00')
RECURSIVE RStripNul(_)
RStripNul(str) ==
    IF str # <<>> /\ str[Len(str)] = 0 THEN RStripNul(SubSeq(str, 1, Len(str) - 1))
    ELSE str

\* parse_car_header(file): the model name; the warning goes to a
\* ParserContext() made on the spot, which nothing reads.
\* warnings: the caller's context.warnings
parse_car_header(raw_name, warnings) ==
    LET model_name == SplitNul(DecodeAscii(raw_name))
        unexpected == ~EndsWith(model_name, ModelNameSuffix)
    IN  [model_name |-> model_name,
         warnings |-> warnings,
         dropped |-> IF unexpected THEN <<"model_name_format">> ELSE <<>>]

\* parse_3df_bones(file, bone_count): bone_names and the messages given to
\* the logger's warn(); raw_names is indexed from 0
parse_3df_bones(raw_names) ==
    LET decoded == [i \in DOMAIN raw_names |-> RStripNul(DecodeAscii(raw_names[i]))]
        too_long(name) == Len(name) > 32
        not_ascii(name) == \E k \in 1..Len(name) : name[k] >= 128
        named(i) ==
            IF decoded[i] = <<>> THEN <<66, 111, 110, 101, 95, 48 + i>>
            ELSE IF too_long(decoded[i]) THEN SubSeq(decoded[i], 1, 32)
            ELSE IF not_ascii(decoded[i])
                THEN SelectSeq(decoded[i], LAMBDA c : c < 128)
            ELSE decoded[i]
        logged(i) ==
            IF decoded[i] = <<>> THEN <<>>
            ELSE IF too_long(decoded[i]) THEN <<"bone_name_truncated">>
            ELSE IF not_ascii(decoded[i]) THEN <<"bone_name_cleaned">>
            ELSE <<>>
    IN  [bone_names |-> [i \in DOMAIN raw_names |-> named(i)],
         logged |-> ConcatAll([k \in 1..Cardinality(DOMAIN raw_names) |-> logged(k - 1)])]

\* parse_car(filepath, validate=False): model_name and context.warnings as
\* the header step leaves them
parse_car_names(file) ==
    LET context_warnings == <<>>
        head == parse_car_header(file.model_name, context_warnings)
    IN  [model_name |-> head.model_name, bone_names |-> <<>>,
         warnings |-> head.warnings, logged |-> head.dropped]

\* parse_3df(filepath, validate): bone_names and context.warnings as the bone
\* steps leave them
parse_3df_names(file) ==
    LET context_warnings == <<>>
        parsed == parse_3df_bones([i \in DOMAIN file.bones |-> file.bones[i].name])
        checked == IF file.validate
                      THEN validate_3df_bones(file.bones,
                                              Cardinality(DOMAIN file.bones),
                                              context_warnings)
                   ELSE [raised |-> FALSE, warnings |-> context_warnings]
    IN  [model_name |-> <<>>, bone_names |-> parsed.bone_names,
         warnings |-> checked.warnings, logged |-> parsed.logged]

(*--- inputs of the name decoders ---*)
MaxNamedBones == 2

\* "Tmsc: #", "T", "", "msc: #" with a NUL and a byte after it, "T" + NUL +
\* "msc: #", 'msc: # ' with a byte >= 128 inside
ModelNames ==
    {<<84>> \o ModelNameSuffix, <<84>>, <<>>, ModelNameSuffix \o <<0, 88>>,
     <<84, 0>> \o ModelNameSuffix, <<109, 115, 233, 99, 58, 32, 35>>}

\* "B", "C", empty, "B" with a byte >= 128, a NUL inside, 32 bytes
NameFields ==
    {<<66>>, <<67>>, <<>>, <<66, 233>>, <<66, 0, 67>>, [k \in 1..32 |-> 66]}

NmInit ==
    \E file \in
          {[kind |-> "car", validate |-> FALSE, model_name |-> name, bones |-> <<>>] :
              name \in ModelNames}
          \cup UNION {UNION {
              {[kind |-> "3df", validate |-> validate, model_name |-> <<>>,
                bones |-> [i \in 0..(n - 1) |-> Bone(names[i], i - 1, TRUE, 0)]] :
                  names \in [0..(n - 1) -> NameFields]} :
              validate \in BOOLEAN} : n \in 0..MaxNamedBones} :
       nm = [pc |-> "file", result |-> <<>>, log |-> <<>>, file |-> file]

\* what a parser hands back and what it logged
NmParsed(res) ==
    [nm EXCEPT !.result = [model_name |-> res.model_name,
                           bone_names |-> res.bone_names,
                           warnings |-> res.warnings],
               !.log = res.logged,
               !.pc = "parsed"]

\* parse_car(filepath, validate=False)
NmParseCar ==
    /\ nm.pc = "file"
    /\ nm.file.kind = "car"
    /\ nm' = NmParsed(parse_car_names(nm.file))
    /\ UNCHANGED nmOthers

\* parse_3df(filepath, validate)
NmParse3df ==
    /\ nm.pc = "file"
    /\ nm.file.kind = "3df"
    /\ nm' = NmParsed(parse_3df_names(nm.file))
    /\ UNCHANGED nmOthers

NmNext == NmParseCar \/ NmParse3df

Warned(warnings, kinds) == \E k \in 1..Len(warnings) : warnings[k] \in kinds

\* C22: every warning condition detected during a parse_car or parse_3df call
\* appears in the warning list that call returns: a CAR model name that lacks
\* the suffix 'msc: #' yields an entry in the warnings returned by parse_car,
\* and a bone name that is cleaned or truncated yields an entry in the
\* warnings returned by parse_3df.
C22_WarningsReturned ==
    nm.pc = "parsed" =>
        /\ (nm.file.kind = "car" /\ ~EndsWith(nm.result.model_name, ModelNameSuffix))
              => Warned(nm.result.warnings, {"model_name_format"})
        /\ nm.file.kind = "3df" =>
              \A i \in DOMAIN nm.file.bones :
                 (nm.file.bones[i].name # <<>>
                    /\ nm.result.bone_names[i] # nm.file.bones[i].name)
                    => Warned(nm.result.warnings,
                              {"bone_name_cleaned", "bone_name_truncated"})

\* C23: when the file ends before vertex_count vertex records or bone_count
\* bone records have been fully read, parse_3df raises instead of returning:
\* on every normal return len(vertices) == vertex_count and len(bones) ==
\* bone_count, with validate on or off.
C23_ShortReadsAreFatal ==
    (df_pc = "parsed" /\ ~df_result.raised) =>
        /\ Len(df_result.vertices) = df_file.header.vertex_count
        /\ Cardinality(DOMAIN df_result.bones) = df_file.header.bone_count

\* the walk along the parent links from node: the bone whose parent link
\* leads back to a bone already on the path (the closing link), -1 when the
\* walk ends at a root; prev is the bone the walk came from
RECURSIVE ClosingBone(_, _, _, _, _)
ClosingBone(parents, n, prev, node, path) ==
    IF node \in path THEN prev
    ELSE IF node = -1 \/ node >= n THEN -1
    ELSE ClosingBone(parents, n, node, parents[node], path \cup {node})

\* the walks from bone i, i + 1, ..., each cutting the closing link it finds
RECURSIVE CutClosingLinks(_, _, _)
CutClosingLinks(parents, n, i) ==
    IF i >= n THEN parents
    ELSE LET b == ClosingBone(parents, n, -1, i, {})
         IN  CutClosingLinks(IF b = -1 THEN parents ELSE [parents EXCEPT ![b] = -1],
                             n, i + 1)

\* C24: when validate_3df_bones repairs a cyclic parent array, for each cycle
\* it sets to -1 exactly one parent link, namely the link that closes the
\* cycle (the link from the last bone reached on the walk back to a bone
\* already on the current path), and it leaves the parent of every other bone
\* unchanged.
C24_ClosingLinkIsCut ==
    bone_pc = "validated" =>
        [i \in DOMAIN bones |-> bones[i].parent]
            = CutClosingLinks([i \in DOMAIN bone_in |-> bone_in[i].parent],
                              bone_count, 0)

\* the bone k parent links up from bone i in the array as parsed
RECURSIVE UpFrom(_, _)
UpFrom(i, k) ==
    IF k = 0 \/ i \notin DOMAIN bone_in THEN i ELSE UpFrom(bone_in[i].parent, k - 1)

\* the bones on the cycle through bone i, if i is on one
CycleOf(i) == {UpFrom(i, k) : k \in 1..bone_count}
OnCycle(i) == i \in CycleOf(i)

\* the first bone of cycle c met on the walk up from bone i
FirstOn(i, c) ==
    LET k0 == CHOOSE k \in 0..bone_count :
                  /\ UpFrom(i, k) \in c
                  /\ \A j \in 0..(k - 1) : UpFrom(i, j) \notin c
    IN  UpFrom(i, k0)

\* C24, amended: for each cycle exactly one parent link is set to -1, namely
\* the parent link of the bone at which the walk from the lowest-numbered bone
\* leading to the cycle first enters it, and every other parent is unchanged.
C24_EntryLinkIsCut ==
    bone_pc = "validated" =>
        LET changed == {i \in DOMAIN bones : bones[i].parent # bone_in[i].parent}
        IN  /\ \A i \in changed : bones[i].parent = -1 /\ OnCycle(i)
            /\ \A i \in DOMAIN bones : OnCycle(i) =>
                  LET c == CycleOf(i)
                      leading == {j \in DOMAIN bones :
                                     \E k \in 0..bone_count : UpFrom(j, k) \in c}
                      lowest == CHOOSE j \in leading : \A m \in leading : j <= m
                  IN  changed \cap c = {FirstOn(lowest, c)}

\* a tail 0 -> 1 into the cycle 1 <-> 2: the link of bone 1 was cut, the
\* closing link of bone 2 and the tail were kept
C24_Witness ==
    /\ bone_pc = "validated"
    /\ bone_count = 3
    /\ bone_in[0].parent = 1 /\ bone_in[1].parent = 2 /\ bone_in[2].parent = 1
    /\ bones[0].parent = 1 /\ bones[1].parent = -1 /\ bones[2].parent = 1

(***************************************************************************)
(* Track preview and NLA sound playback (operators/animation.py): the      *)
(* handlers for playback start, playback stop, frame change and file load, *)
(* the preview operator, the sound toggle operator and the panel checkbox. *)
(* st is the record of the module globals and of the host state they use.  *)
(***************************************************************************)
\* _preview_restore_state = None
NoPreview == [set |-> FALSE]

\* get_active_animation_data(obj): which container is returned
get_active_animation_data(obj) ==
    LET sk_anim == IF obj.sk.exists THEN "sk" ELSE "none"
        obj_anim == IF obj.own.exists THEN "own" ELSE "none"
    IN  IF obj.source = "SHAPE_KEYS" THEN sk_anim
        ELSE IF obj.source = "OBJECT" THEN obj_anim
        ELSE IF sk_anim # "none" THEN sk_anim ELSE obj_anim

\* the tracks of a container of obj
TracksOf(obj, key) ==
    IF key = "sk" THEN obj.sk.tracks ELSE IF key = "own" THEN obj.own.tracks ELSE <<>>

WithTracks(obj, key, tracks) ==
    IF key = "sk" THEN [obj EXCEPT !.sk.tracks = tracks]
    ELSE [obj EXCEPT !.own.tracks = tracks]

\* for handle, _, _ in _playing_sounds.values(): handle.stop();
\* _playing_sounds.clear()
StopAllSounds(st) == [st EXCEPT !.sounds = <<>>]

\* playback_started_handler(scene)
playback_started_handler(st) == [st EXCEPT !.real = TRUE]

\* playback_stopped_handler(scene)
playback_stopped_handler(st) == StopAllSounds([st EXCEPT !.real = FALSE])

\* CARNIVORES_OT_play_track_preview.stop_preview(context); the host runs the
\* animation_playback_post handlers when animation_cancel stops playback
stop_preview(st) ==
    IF ~st.restore.set THEN st
    ELSE LET mutes == st.restore.track_mutes
             own == st.obj.own.tracks
             restored == [k \in 1..Len(own) |->
                            IF own[k].name \in DOMAIN mutes
                               THEN [own[k] EXCEPT !.mute = mutes[own[k].name]]
                            ELSE own[k]]
             st1 == IF st.restore.obj_valid /\ st.obj.own.exists
                       THEN [st EXCEPT !.obj.own.tracks = restored]
                    ELSE st
             st2 == [st1 EXCEPT
                       !.scene = [frame_start |-> st.restore.original_start,
                                  frame_end |-> st.restore.original_end,
                                  frame_current |-> st.restore.original_frame,
                                  sound_enabled |-> st.restore.original_sound_enabled],
                       !.loop = FALSE]
             st3 == IF st2.playing
                       THEN playback_stopped_handler([st2 EXCEPT !.playing = FALSE])
                    ELSE st2
         IN  [st3 EXCEPT !.restore = NoPreview]

\* the strip of an action on its track: frame_start, frame_end
StripRange(action_name) == IF action_name = "A" THEN <<1, 2>> ELSE <<2, 3>>

\* bpy.data.actions
PvActions == {"A", "B", "C"}

\* action.carnivores_sound_ptr.name, "" when the action has no sound
ActionSound(action_name) == IF action_name = "A" THEN "S" ELSE ""

\* CARNIVORES_OT_play_track_preview.execute(context), action_name the
\* operator's property; the result and what the operator returned
play_track_preview(st, action_name) ==
    LET same == st.restore.set /\ st.restore.action_name = action_name
        st1 == stop_preview(st)
        key == get_active_animation_data(st1.obj)
        tracks == TracksOf(st1.obj, key)
        hits == {k \in 1..Len(tracks) : tracks[k].action = action_name}
        target == CHOOSE k \in hits : \A j \in hits : k <= j
        range == StripRange(action_name)
        soloed == [k \in 1..Len(tracks) |-> [tracks[k] EXCEPT !.mute = (k # target)]]
        stored == [set |-> TRUE, obj_valid |-> TRUE, action_name |-> action_name,
                   original_frame |-> st1.scene.frame_current,
                   original_start |-> st1.scene.frame_start,
                   original_end |-> st1.scene.frame_end,
                   track_mutes |-> [n \in {tracks[k].name : k \in 1..Len(tracks)} |->
                                      LET k == CHOOSE j \in 1..Len(tracks) :
                                                  /\ tracks[j].name = n
                                                  /\ \A i \in (j + 1)..Len(tracks) :
                                                        tracks[i].name # n
                                      IN  tracks[k].mute],
                   preview_start |-> range[1], preview_end |-> range[2],
                   last_frame |-> range[1],
                   original_sound_enabled |-> st1.scene.sound_enabled]
        st2 == [st1 EXCEPT
                  !.restore = stored,
                  !.obj = WithTracks(st1.obj, key, soloed),
                  !.scene = [frame_start |-> range[1], frame_end |-> range[2],
                             frame_current |-> range[1], sound_enabled |-> TRUE],
                  !.loop = TRUE]
        st3 == IF ~st2.playing
                  THEN playback_started_handler([st2 EXCEPT !.playing = TRUE])
               ELSE st2
        ended == IF st.restore.set THEN "preview_stopped" ELSE "preview_cancelled"
    IN  IF same THEN [st |-> st1, did |-> "preview_stopped"]
        ELSE IF key = "none" \/ action_name \notin PvActions \/ hits = {}
            THEN [st |-> st1, did |-> ended]
        ELSE [st |-> st3, did |-> "preview_started"]

\* preview_loop_handler(scene); scene.frame_set(start) is taken as setting
\* the frame
preview_loop_handler(st) ==
    IF ~st.restore.set THEN st
    ELSE LET start == st.restore.preview_start
             current == st.scene.frame_current
             past_end == current > st.restore.preview_end
             should_restart == past_end \/ current < st.restore.last_frame
             now == IF past_end THEN start ELSE current
             st1 == [st EXCEPT !.scene.frame_current = now,
                               !.restore.last_frame = now]
         IN  IF should_restart /\ st.restore.obj_valid /\ 1 \in DOMAIN st.sounds
                 THEN [st1 EXCEPT !.sounds =
                          [o \in DOMAIN st.sounds \ {1} |-> st.sounds[o]]]
             ELSE st1

\* the "Start new sounds" step for one object of objects_with_active_sounds;
\* outcome: "play", "none" (no datablock, no factory, an error that is only
\* logged), "openal" (an error that resets the device)
StartSound(st, wanted, o, outcome) ==
    IF o \notin DOMAIN wanted \/ o \in DOMAIN st.sounds \/ outcome = "none" THEN st
    ELSE IF outcome = "play"
        THEN [st EXCEPT !.sounds = [p \in DOMAIN st.sounds \cup {o} |->
                                       IF p = o THEN wanted[o] ELSE st.sounds[p]]]
    ELSE [st EXCEPT !.sounds = <<>>,
                    !.unstopped = st.unstopped \/ DOMAIN st.sounds # {}]

\* carnivores_nla_sound_handler(scene).  Object 1 is the active object,
\* object 2 another object of the scene.  tweak[o]: the sound of the action
\* object o has in tweak mode at this frame, "" when there is none;
\* device: get_aud_device() returned one
carnivores_nla_sound_handler(st, tweak, device, outcomes) ==
    IF ~st.real \/ ~st.scene.sound_enabled \/ ~device THEN st
    ELSE LET previewed == /\ st.restore.set /\ st.restore.obj_valid
                          /\ ActionSound(st.restore.action_name) # ""
             has_tracks(o) ==
                o = 2 \/ TracksOf(st.obj, get_active_animation_data(st.obj)) # <<>>
             active == {o \in {1, 2} :
                          \/ o = 1 /\ previewed
                          \/ has_tracks(o) /\ tweak[o] # ""}
             wanted == [o \in active |->
                          IF o = 1 /\ previewed THEN ActionSound(st.restore.action_name)
                          ELSE tweak[o]]
             kept == {o \in DOMAIN st.sounds :
                         o \in active /\ wanted[o] = st.sounds[o]}
             st1 == [st EXCEPT !.sounds = [o \in kept |-> st.sounds[o]]]
         IN  StartSound(StartSound(st1, wanted, 1, outcomes[1]), wanted, 2, outcomes[2])

\* CARNIVORES_OT_toggle_nla_sound_playback.execute
toggle_nla_sound_playback(st) ==
    LET st1 == [st EXCEPT !.scene.sound_enabled = ~st.scene.sound_enabled]
    IN  IF st1.scene.sound_enabled THEN st1 ELSE StopAllSounds(st1)

(*--- inputs of the preview and sound handlers ---*)
MaxFrame == 3
MaxEvents == 4

\* track k of a container: the default names of the host, one strip each
PvTrack(k, mute, action) ==
    [name |-> IF k = 1 THEN "NlaTrack" ELSE "NlaTrack.001", mute |-> mute,
     action |-> action]

\* animation data: none, or two tracks with actions first and second
PvContainer(exists, first, second, mute) ==
    [exists |-> exists,
     tracks |-> IF exists THEN <<PvTrack(1, FALSE, first), PvTrack(2, mute, second)>>
                ELSE <<>>]

PvInit ==
    \E enabled \in BOOLEAN, source \in {"AUTO", "OBJECT", "SHAPE_KEYS"},
       has_own \in BOOLEAN, has_sk \in BOOLEAN :
       /\ has_own \/ has_sk
       /\ pv = [pc |-> "session", event |-> "register",
                scene |-> [frame_start |-> 0, frame_end |-> MaxFrame,
                           frame_current |-> 0, sound_enabled |-> enabled],
                obj |-> [source |-> source,
                         own |-> PvContainer(has_own, "A", "B", FALSE),
                         sk |-> PvContainer(has_sk, "B", "A", TRUE)],
                playing |-> FALSE, real |-> FALSE, loop |-> FALSE,
                restore |-> NoPreview, sounds |-> <<>>, unstopped |-> FALSE,
                before |-> NoPreview, events |-> 0]

\* the state after a handler or operator, and the values a preview found
PvSet(st, event) ==
    /\ pv.events < MaxEvents
    /\ pv' = [st EXCEPT
                !.event = event,
                !.events = pv.events + 1,
                !.before = IF event = "preview_started" /\ ~pv.restore.set
                              THEN [set |-> TRUE, scene |-> pv.scene, obj |-> pv.obj]
                           ELSE IF pv.restore.set /\ event # "load" THEN pv.before
                           ELSE NoPreview]
    /\ UNCHANGED pvOthers

\* the user starts playback: animation_playback_pre
PvPlaybackStarted ==
    /\ pv.pc = "session" /\ ~pv.playing
    /\ PvSet(playback_started_handler([pv EXCEPT !.playing = TRUE]),
             "playback_started")

\* the user pauses playback: animation_playback_post
PvPlaybackStopped ==
    /\ pv.pc = "session" /\ pv.playing
    /\ PvSet(playback_stopped_handler([pv EXCEPT !.playing = FALSE]),
             "playback_stopped")

\* the frame changes (playback advances or wraps, or the user scrubs):
\* frame_change_post runs preview_loop_handler first when it is registered,
\* then carnivores_nla_sound_handler
PvFrameChange ==
    /\ pv.pc = "session"
    /\ \E frame \in {0, IF pv.scene.frame_current >= MaxFrame THEN pv.scene.frame_start
                        ELSE pv.scene.frame_current + 1},
          tweak \in [{1, 2} -> {"", "T"}], device \in BOOLEAN,
          outcomes \in [{1, 2} -> {"play", "none", "openal"}] :
          LET st0 == [pv EXCEPT !.scene.frame_current = frame]
              st1 == IF pv.loop THEN preview_loop_handler(st0) ELSE st0
          IN  PvSet(carnivores_nla_sound_handler(st1, tweak, device, outcomes),
                    "frame_change")

\* the toggle operator
PvToggleSound ==
    /\ pv.pc = "session"
    /\ PvSet(toggle_nla_sound_playback(pv), "toggle")

\* the panel's checkbox: row.prop(scene, "carnivores_nla_sound_enabled")
PvCheckbox ==
    /\ pv.pc = "session"
    /\ PvSet([pv EXCEPT !.scene.sound_enabled = ~pv.scene.sound_enabled],
             "checkbox")

\* the preview operator, from a track's button or by name
PvPreview ==
    /\ pv.pc = "session"
    /\ \E action_name \in PvActions \cup {"gone"} :
          LET res == play_track_preview(pv, action_name)
          IN  PvSet(res.st, res.did)

\* a file is loaded: clear_aud_device_on_new_file; the host drops the
\* handlers that are not persistent, stops playback, and the objects of the
\* old file are gone
PvFileLoad ==
    /\ pv.pc = "session"
    /\ LET st1 == StopAllSounds([pv EXCEPT !.real = FALSE])
       IN  PvSet([st1 EXCEPT
                       !.scene = [frame_start |-> 0, frame_end |-> MaxFrame,
                                  frame_current |-> 0, sound_enabled |-> TRUE],
                       !.playing = FALSE,
                       !.loop = FALSE,
                       !.restore = IF st1.restore.set
                                      THEN [st1.restore EXCEPT !.obj_valid = FALSE]
                                   ELSE st1.restore],
                    "load")

PvNext ==
    \/ PvPlaybackStarted \/ PvPlaybackStopped \/ PvFrameChange
    \/ PvToggleSound \/ PvCheckbox \/ PvPreview \/ PvFileLoad

\* C25: after play_track_preview has started a preview, any stop of animation
\* playback (the animation_playback_post event handled by
\* playback_stopped_handler) ends the preview: the preview state is cleared,
\* the loop handler is removed, and the scene frame range, current frame,
\* sound-enabled flag and track mute flags are back to their pre-preview
\* values.
C25_PauseEndsPreview ==
    (pv.event = "playback_stopped" /\ pv.before.set) =>
        /\ ~pv.restore.set
        /\ ~pv.loop
        /\ pv.scene = pv.before.scene
        /\ pv.obj = pv.before.obj

\* C26: for an object whose active animation data is its own or its shape
\* keys', invoking play_track_preview for an action and then invoking it again
\* so that the preview stops restores scene.frame_start, frame_end,
\* frame_current, carnivores_nla_sound_enabled and the mute flag of every NLA
\* track to the values they had before the first invocation.
C26_PreviewRoundTrip ==
    (pv.event = "preview_stopped" /\ pv.before.set) =>
        /\ pv.scene = pv.before.scene
        /\ pv.obj = pv.before.obj

\* C30: whenever carnivores_nla_sound_enabled is false or real playback is not
\* running, _playing_sounds is empty; and every handle that ever left
\* _playing_sounds had stop() called on it first.
C30_NoSoundWhileOff ==
    /\ (~pv.scene.sound_enabled \/ ~pv.real) => DOMAIN pv.sounds = {}
    /\ ~pv.unstopped

(***************************************************************************)
(* The host state around a bake (export_car.py, gather_car_animations):    *)
(* what the function saves, changes while it samples the strips, and       *)
(* restores in its finally block.  The steps are the positions of the      *)
(* function at which the host evaluates the object.                        *)
(***************************************************************************)
\* "STATE MANAGEMENT": the saved values
save_state(host) ==
    [original_frame |-> host.frame,
     original_action |-> host.action,
     original_use_nla |-> host.use_nla,
     original_mute_states |-> host.mutes,
     mod_states |-> [k \in 1..Len(host.mods) |-> host.mods[k].show_viewport],
     original_show_only_shape_key |-> host.pin]

\* "STATE MANAGEMENT": pinning off, deformers on, other modifiers off
prepare_state(host) ==
    [host EXCEPT
       !.pin = FALSE,
       !.mods = [k \in 1..Len(host.mods) |->
                   [host.mods[k] EXCEPT
                      !.show_viewport = host.mods[k].type \in {"ARMATURE", "HOOK"}]]]

\* the finally block, were it to leave the tracks' mute flags alone
restore_state_without_mutes(host, saved) ==
    [host EXCEPT
       !.frame = saved.original_frame,
       !.action = saved.original_action,
       !.use_nla = saved.original_use_nla,
       !.mods = [k \in 1..Len(host.mods) |->
                   [host.mods[k] EXCEPT !.show_viewport = saved.mod_states[k]]],
       !.pin = IF saved.original_show_only_shape_key THEN TRUE ELSE host.pin]

\* "RESTORE STATE": the finally block
restore_state(host, saved) ==
    [host EXCEPT
       !.frame = saved.original_frame,
       !.action = saved.original_action,
       !.use_nla = saved.original_use_nla,
       !.mutes = IF saved.original_mute_states # <<>>
                    THEN saved.original_mute_states ELSE host.mutes,
       !.mods = [k \in 1..Len(host.mods) |->
                   [host.mods[k] EXCEPT !.show_viewport = saved.mod_states[k]]],
       !.pin = IF saved.original_show_only_shape_key THEN TRUE ELSE host.pin]

(*--- inputs of the bake ---*)
MaxBakeTracks == 2
MaxTrackStrips == 2
MaxMods == 2

\* modifier k of the object: an armature deformer first, then others
GbModifier(k, show_viewport) ==
    [type |-> IF k = 1 THEN "ARMATURE" ELSE "SUBSURF", show_viewport |-> show_viewport]

GbInit ==
    \E frame \in {0, 1}, action \in {"", "A"}, use_nla \in BOOLEAN, pin \in BOOLEAN,
       has_anim \in BOOLEAN, ntracks \in 0..MaxBakeTracks, nmods \in 0..MaxMods :
       \E mutes \in [1..ntracks -> BOOLEAN], shows \in [1..nmods -> BOOLEAN],
          nstrips \in 1..MaxTrackStrips :
          /\ has_anim \/ (ntracks = 0 /\ action = "" /\ ~use_nla)
          /\ gb = [pc |-> "call", found |-> <<>>, saved |-> <<>>, track |-> 0,
                   strip |-> 0, exit |-> "",
                   host |-> [has_anim |-> has_anim, frame |-> frame,
                             action |-> action, use_nla |-> use_nla,
                             mutes |-> mutes,
                             strips |-> [k \in 1..ntracks |-> Min2(k, nstrips)],
                             mods |-> [k \in 1..nmods |-> GbModifier(k, shows[k])],
                             pin |-> pin]]

\* from the call to the first bake: no animation data, the saved state, then
\* inside the try the choice of path A (tracks) or path B (active action)
GbBegin ==
    /\ gb.pc = "call"
    /\ LET host == prepare_state(gb.host)
           ntracks == Len(host.mutes)
           begun == [gb EXCEPT !.found = gb.host, !.saved = save_state(gb.host)]
       IN  gb' = IF ~gb.host.has_anim
                    THEN [gb EXCEPT !.found = gb.host, !.pc = "returned"]
                 ELSE IF ntracks > 0
                    THEN [begun EXCEPT
                            !.host = [host EXCEPT !.use_nla = TRUE,
                                         !.mutes = [k \in 1..ntracks |-> TRUE]],
                            !.pc = "tracks",
                            !.track = ntracks + 1]
                 ELSE IF host.action # ""
                    THEN [begun EXCEPT !.host = [host EXCEPT !.use_nla = FALSE],
                                       !.pc = "action"]
                 ELSE [begun EXCEPT !.host = host, !.pc = "finally"]
    /\ UNCHANGED gbOthers

\* for track in reversed(anim_data.nla_tracks): track.mute = False
GbSolo ==
    /\ gb.pc = "tracks"
    /\ gb' = IF gb.track > 1
                THEN [gb EXCEPT !.track = gb.track - 1,
                                !.host.mutes[gb.track - 1] = FALSE,
                                !.strip = 1,
                                !.pc = "strips"]
             ELSE [gb EXCEPT !.pc = "finally"]
    /\ UNCHANGED gbOthers

\* bake_range for one strip or for the active action: scene.frame_set to the
\* sample frames, then frames, None for a vertex-count mismatch, or an
\* exception
GbBake(st, frame, outcome, next_pc) ==
    [st EXCEPT !.host.frame = frame,
               !.exit = IF outcome = "frames" THEN st.exit ELSE outcome,
               !.pc = IF outcome = "raised" THEN "finally" ELSE next_pc]

\* for strip in track.strips: bake_range(...)
GbSample ==
    /\ gb.pc = "strips"
    /\ gb.strip <= gb.host.strips[gb.track]
    /\ \E frame \in {gb.host.frame, 2}, outcome \in {"frames", "mismatch", "raised"} :
          gb' = GbBake([gb EXCEPT !.strip = gb.strip + 1], frame, outcome, "strips")
    /\ UNCHANGED gbOthers

\* "Re-mute after processing this track"
GbRemute ==
    /\ gb.pc = "strips"
    /\ gb.strip > gb.host.strips[gb.track]
    /\ gb' = [gb EXCEPT !.host.mutes[gb.track] = TRUE, !.pc = "tracks"]
    /\ UNCHANGED gbOthers

\* path B: bake_range for the active action
GbSampleAction ==
    /\ gb.pc = "action"
    /\ \E frame \in {gb.host.frame, 2}, outcome \in {"frames", "mismatch", "raised"} :
          gb' = GbBake(gb, frame, outcome, "finally")
    /\ UNCHANGED gbOthers

\* the finally block and the return
GbFinally ==
    /\ gb.pc = "finally"
    /\ gb' = [gb EXCEPT !.host = restore_state(gb.host, gb.saved), !.pc = "returned"]
    /\ UNCHANGED gbOthers

GbNext ==
    \/ GbBegin \/ GbSolo \/ GbSample \/ GbRemute \/ GbSampleAction \/ GbFinally

\* C27: after gather_car_animations returns, on every exit path (normal
\* completion, a vertex-count mismatch, an exception raised mid-bake), the
\* scene's current frame, the animation data's active action and use_nla
\* flag, every NLA track's mute flag, every modifier's show_viewport flag and
\* the object's shape-key pinning flag equal their values before the call;
\* and while a strip is being sampled, its track is the only unmuted track.
C27_BakeRestoresHost ==
    /\ gb.pc = "returned" => gb.host = gb.found
    /\ gb.pc = "strips" =>
          \A k \in 1..Len(gb.host.mutes) : gb.host.mutes[k] = (k # gb.track)

\* an exception in the middle of the second track processed, on an object
\* that was pinned, with an unmuted and a muted track and a hidden deformer
C27_Witness ==
    /\ gb.pc = "returned"
    /\ gb.exit = "raised"
    /\ gb.track = 1
    /\ gb.found.pin
    /\ gb.found.mutes = <<FALSE, TRUE>>
    /\ Len(gb.found.mods) = 2
    /\ ~gb.found.mods[1].show_viewport
    /\ gb.found.mods[2].show_viewport
    /\ ~gb.found.use_nla

(***************************************************************************)
(* CAR vertex owners: export_car writes owner + 1 (export_car.py), and     *)
(* parse_car decodes the owner fields with handle_car_owners (utils/io.py).*)
(* The field is an unsigned 16-bit integer.                                *)
(***************************************************************************)
\* car_verts_arr['owner'] += 1
car_owners_on_disk(owners) == [i \in 1..Len(owners) |-> (owners[i] + 1) % 65536]

\* np.min and np.max of a non-empty array
SetMin(S) == CHOOSE x \in S : \A y \in S : x <= y

SetMax(S) == CHOOSE x \in S : \A y \in S : y <= x

\* handle_car_owners(vertices, context): the owners and, for each bone name
\* "CarBone_<n>", the number n
handle_car_owners(owners) ==
    LET non_zero_owners == {owners[i] : i \in {j \in 1..Len(owners) : owners[j] > 0}}
        min_non_zero == SetMin(non_zero_owners)
        shifted == [i \in 1..Len(owners) |->
                      IF owners[i] > 0 THEN owners[i] - min_non_zero ELSE owners[i]]
        max_owner_adjusted == SetMax({shifted[i] : i \in 1..Len(owners)})
    IN  IF non_zero_owners = {}
            THEN [owners |-> owners, bone_names |-> <<>>]
        ELSE [owners |-> shifted,
              bone_names |-> [k \in 1..(max_owner_adjusted + 1) |->
                                (k - 1) + min_non_zero]]

(*--- inputs ---*)
MaxOwnedVerts == 3
MaxOwner == 2

OwnerArrays(top) ==
    UNION {[1..n -> 0..top] : n \in 1..MaxOwnedVerts}

\* a model in memory with 0-based owners, or a file of another origin
OwInit ==
    \/ \E owners \in OwnerArrays(MaxOwner) :
          ow = [pc |-> "memory", owners |-> owners, disk |-> <<>>, decoded |-> <<>>]
    \/ \E disk \in OwnerArrays(MaxOwner + 1) :
          ow = [pc |-> "file", owners |-> <<>>, disk |-> disk, decoded |-> <<>>]

\* export_car: the vertex block
OwExport ==
    /\ ow.pc = "memory"
    /\ ow' = [ow EXCEPT !.disk = car_owners_on_disk(ow.owners), !.pc = "file"]
    /\ UNCHANGED owOthers

\* parse_car: handle_car_owners on the vertices read
OwParse ==
    /\ ow.pc = "file"
    /\ ow' = [ow EXCEPT !.decoded = handle_car_owners(ow.disk), !.pc = "decoded"]
    /\ UNCHANGED owOthers

OwNext == OwExport \/ OwParse

\* C28: for every in-memory owner array with 0-based owners, decoding
\* (handle_car_owners) what export_car writes (owner + 1) gives back the same
\* owner for every vertex, and two vertices with different owners on disk
\* never decode to the same owner; also when no vertex is owned by bone 0 and
\* when the file contains owner value 0 next to non-zero owners.
C28_OwnersRoundTrip ==
    ow.pc = "decoded" =>
        /\ ow.owners # <<>> => ow.decoded.owners = ow.owners
        /\ \A i, j \in 1..Len(ow.disk) :
              ow.disk[i] # ow.disk[j] => ow.decoded.owners[i] # ow.decoded.owners[j]

(***************************************************************************)
(* Sounds of a CAR import (utils/animation.py): import_car_sounds turns    *)
(* the sound blocks into sound datablocks, associate_sounds_with_animations*)
(* links them to the actions through the cross-reference table.  A sound   *)
(* datablock is named by the number (from 0) of the block it was decoded   *)
(* from; the animations of the file have different names.                  *)
(***************************************************************************)
\* import_car_sounds(self, sounds, model_name, context): imported_sounds
RECURSIVE import_car_sounds(_, _)
import_car_sounds(sounds, idx) ==
    IF idx > Len(sounds) THEN <<>>
    ELSE LET s == sounds[idx]
             rest == import_car_sounds(sounds, idx + 1)
         IN  IF s.size = 0 \/ ~s.loads THEN rest ELSE <<idx - 1>> \o rest

\* associate_sounds_with_animations(self, obj, animations, cross_ref,
\* imported_sounds, actions): the sound each action ends up with
associate_sounds_with_animations(animations, cross_ref, imported_sounds) ==
    [i \in 1..animations |->
        LET sound_idx == cross_ref[i]
        IN  IF imported_sounds = <<>> THEN -1
            ELSE IF sound_idx = -1 \/ sound_idx >= Len(imported_sounds) THEN -1
            ELSE imported_sounds[sound_idx + 1]]

(*--- inputs ---*)
MaxLinkedSounds == 3
MaxSlots == 2

\* a sound block: its number of samples, and whether the host loads it
SoundBlocks == {[size |-> 0, loads |-> TRUE], [size |-> 1, loads |-> TRUE],
                [size |-> 1, loads |-> FALSE]}

\* parse_car has clamped the table's entries to -1 .. sfx_count - 1
AsInit ==
    \E sfx_count \in 0..MaxLinkedSounds, animations \in 0..MaxSlots :
       \E sounds \in [1..sfx_count -> SoundBlocks],
          cross_ref \in [1..animations -> -1..(sfx_count - 1)] :
          as = [pc |-> "parsed", links |-> <<>>,
                file |-> [sounds |-> sounds, cross_ref |-> cross_ref,
                          animations |-> animations]]

\* the import operator: import_car_sounds, then
\* associate_sounds_with_animations
AsImport ==
    /\ as.pc = "parsed"
    /\ as' = [as EXCEPT
                !.links = associate_sounds_with_animations(
                             as.file.animations, as.file.cross_ref,
                             import_car_sounds(as.file.sounds, 1)),
                !.pc = "imported"]
    /\ UNCHANGED asOthers

AsNext == AsImport

\* C29: after a CAR import, whenever the action of the animation in slot i
\* gets a linked sound, that sound is the one decoded from sound block number
\* cross_ref[i] of the file, also when an earlier sound block is empty or
\* failed to load.
C29_LinkFollowsCrossRef ==
    as.pc = "imported" =>
        \A i \in 1..as.file.animations :
            as.links[i] # -1 => as.links[i] = as.file.cross_ref[i]

(***************************************************************************)
(* Specifications: one per component, the other components left idle       *)
(***************************************************************************)
InitTexture ==
    /\ TexInit
    /\ BoneIdle /\ CarIdle /\ MstIdle /\ BakeIdle /\ DfIdle /\ XcIdle
    /\ RsIdle /\ NmIdle /\ PvIdle /\ GbIdle /\ OwIdle /\ AsIdle
SpecTexture == InitTexture /\ [][TexNext]_vars

InitBones ==
    /\ BoneInit
    /\ TexIdle /\ CarIdle /\ MstIdle /\ BakeIdle /\ DfIdle /\ XcIdle
    /\ RsIdle /\ NmIdle /\ PvIdle /\ GbIdle /\ OwIdle /\ AsIdle
SpecBones == InitBones /\ [][BoneNext]_vars

InitCar ==
    /\ CarInit
    /\ TexIdle /\ BoneIdle /\ MstIdle /\ BakeIdle /\ DfIdle /\ XcIdle
    /\ RsIdle /\ NmIdle /\ PvIdle /\ GbIdle /\ OwIdle /\ AsIdle
SpecCar == InitCar /\ [][CarNext]_vars

InitCarTail ==
    /\ CarTailInit
    /\ TexIdle /\ BoneIdle /\ MstIdle /\ BakeIdle /\ DfIdle /\ XcIdle
    /\ RsIdle /\ NmIdle /\ PvIdle /\ GbIdle /\ OwIdle /\ AsIdle
SpecCarTail == InitCarTail /\ [][CarTailNext]_vars

InitMst ==
    /\ MstInit
    /\ TexIdle /\ BoneIdle /\ CarIdle /\ BakeIdle /\ DfIdle /\ XcIdle
    /\ RsIdle /\ NmIdle /\ PvIdle /\ GbIdle /\ OwIdle /\ AsIdle
SpecMst == InitMst /\ [][MstNext]_vars

InitMstAny ==
    /\ MstAnyInit
    /\ TexIdle /\ BoneIdle /\ CarIdle /\ BakeIdle /\ DfIdle /\ XcIdle
    /\ RsIdle /\ NmIdle /\ PvIdle /\ GbIdle /\ OwIdle /\ AsIdle
SpecMstAny == InitMstAny /\ [][MstNext]_vars

InitBake ==
    /\ BakeInit
    /\ TexIdle /\ BoneIdle /\ CarIdle /\ MstIdle /\ DfIdle /\ XcIdle
    /\ RsIdle /\ NmIdle /\ PvIdle /\ GbIdle /\ OwIdle /\ AsIdle
SpecBake == InitBake /\ [][BakeNext]_vars

Init3df ==
    /\ DfInit
    /\ TexIdle /\ BoneIdle /\ CarIdle /\ MstIdle /\ BakeIdle /\ XcIdle
    /\ RsIdle /\ NmIdle /\ PvIdle /\ GbIdle /\ OwIdle /\ AsIdle
Spec3df == Init3df /\ [][DfNext]_vars

InitXc ==
    /\ XcInit
    /\ TexIdle /\ BoneIdle /\ CarIdle /\ MstIdle /\ BakeIdle /\ DfIdle
    /\ RsIdle /\ NmIdle /\ PvIdle /\ GbIdle /\ OwIdle /\ AsIdle
SpecXc == InitXc /\ [][XcNext]_vars

InitRs ==
    /\ RsInit
    /\ TexIdle /\ BoneIdle /\ CarIdle /\ MstIdle /\ BakeIdle /\ DfIdle
    /\ XcIdle /\ NmIdle /\ PvIdle /\ GbIdle /\ OwIdle /\ AsIdle
SpecRs == InitRs /\ [][RsNext]_vars

InitNm ==
    /\ NmInit
    /\ TexIdle /\ BoneIdle /\ CarIdle /\ MstIdle /\ BakeIdle /\ DfIdle
    /\ XcIdle /\ RsIdle /\ PvIdle /\ GbIdle /\ OwIdle /\ AsIdle
SpecNm == InitNm /\ [][NmNext]_vars

InitPv ==
    /\ PvInit
    /\ TexIdle /\ BoneIdle /\ CarIdle /\ MstIdle /\ BakeIdle /\ DfIdle
    /\ XcIdle /\ RsIdle /\ NmIdle /\ GbIdle /\ OwIdle /\ AsIdle
SpecPv == InitPv /\ [][PvNext]_vars

InitGb ==
    /\ GbInit
    /\ TexIdle /\ BoneIdle /\ CarIdle /\ MstIdle /\ BakeIdle /\ DfIdle
    /\ XcIdle /\ RsIdle /\ NmIdle /\ PvIdle /\ OwIdle /\ AsIdle
SpecGb == InitGb /\ [][GbNext]_vars

InitOw ==
    /\ OwInit
    /\ TexIdle /\ BoneIdle /\ CarIdle /\ MstIdle /\ BakeIdle /\ DfIdle
    /\ XcIdle /\ RsIdle /\ NmIdle /\ PvIdle /\ GbIdle /\ AsIdle
SpecOw == InitOw /\ [][OwNext]_vars

InitAs ==
    /\ AsInit
    /\ TexIdle /\ BoneIdle /\ CarIdle /\ MstIdle /\ BakeIdle /\ DfIdle
    /\ XcIdle /\ RsIdle /\ NmIdle /\ PvIdle /\ GbIdle /\ OwIdle
SpecAs == InitAs /\ [][AsNext]_vars

=============================================================================
